---- MODULE Spec2Model ----
(***************************************************************************)
(* Model of the SNMP client of edgeo-scada/snmp (package snmp, Client):    *)
(* the request/response multiplexer (sendRequest, readLoop), the request   *)
(* id allocator (nextRequestID), the connection life cycle (Connect,       *)
(* Disconnect, handleConnectionLost, reconnect), the operations Get,       *)
(* GetNext, GetBulk and Set with their arguments, and Walk and WalkFunc.   *)
(*                                                                         *)
(* Every goroutine is a process with a program counter; one action is one  *)
(* step between two points where another goroutine can interleave.  An     *)
(* unrecovered panic ends the whole process: it sets crashed, and no       *)
(* action is enabled afterwards.  Time is abstracted: a timer (time.After, *)
(* a read deadline) may expire at any step at which it is armed.           *)
(***************************************************************************)
EXTENDS Integers, Sequences, FiniteSets, TLC

(***************************************************************************)
(* Bounds of the model.                                                    *)
(***************************************************************************)
NumCallers == 2        \* goroutines that each issue one request
Retries == 1           \* the value given to ClientOptions.Retries
MaxConnects == 2       \* calls of Connect by the user
MaxDisconnects == 1    \* calls of Disconnect by the user
MaxFaults == 1         \* faults of a run: I/O errors of Read and Write, cancellations,
                       \* error responses of the agent, requests that cannot be encoded
MaxReconnects == 1     \* iterations of the reconnect loops, all goroutines together
MaxBursts == 1         \* runs of Get calls rejected with ErrNotConnected
MaxArgs == 2           \* OIDs or variables given to one call of an operation
MaxBatch == 2          \* variables in one response to a request of a walk
MaxRequests == 2       \* requests one walk issues
IntSpan == 130         \* the integers -IntSpan..IntSpan are given to the integer codec
MaxTail == 2           \* components after the second in an OID given to the OID codec
MaxTraps == 2          \* datagrams that arrive at the socket of the trap listener
PoolSize == 2          \* the value given to PoolOptions.Size
NumUsers == 2          \* goroutines that each call Pool.Get and Pool.Release once
MaxChecks == 2         \* ticks of the health checker's ticker
MaxLosses == 1         \* connections of pool clients lost to an I/O error

(***************************************************************************)
(* Program constants.                                                      *)
(***************************************************************************)
MaxInt32 == 2147483647
MaxRetriesOpt == 0     \* ClientOptions.MaxRetries (reconnect attempts; 0: no limit)
MinInt32 == -MaxInt32 - 1
NoError == 0
NoSuchName == 2
GenErr == 5
Version1 == 0
Version2c == 1

Callers == 1..NumCallers
\* Every successful Connect starts one readLoop, and a readLoop starts at
\* most one reconnect goroutine.
ReaderIds == 1..(MaxConnects + MaxReconnects)
ErrorStatuses == {NoError, NoSuchName, GenErr}
\* The error indexes of the agent's responses: none, every position of a
\* request, one past the end, and a negative one.
ErrorIndexes == (0 - 1)..(MaxArgs + 1)
NoMsg == [rid |-> 0, es |-> NoError, ei |-> 0]

VARIABLES
  state,          \* Client.state: the connection state
  conn,           \* Client.conn: 0 is nil, n > 0 is the n-th socket dialled
  socks,          \* the sockets dialled so far: [open, sent]
  done,           \* Client.done: the index of the channel the field holds
  doneClosed,     \* done channels: TRUE at i when channel i is closed
  wg,             \* Client.wg: the WaitGroup counter
  requestID,      \* Client.requestID
  pending,        \* Client.pending: request id -> response channel (its caller)
  autoReconnect,  \* ClientOptions.AutoReconnect
  cpc,            \* caller: program counter inside Get / sendRequest
  cid,            \* caller: pdu.RequestID
  cretry,         \* caller: the loop variable retry
  clastErr,       \* caller: lastErr
  cresult,        \* caller: what the call returned
  cgot,           \* caller: the PDU received from respCh
  cdata,          \* caller: data, the encoded message
  chans,          \* caller: respCh, [buf, closed]
  cancelled,      \* caller: ctx.Done() is closed
  emitted,        \* caller: the datagrams conn.Write accepted, in order
  chist,          \* caller: history flags of the call
  readers,        \* the readLoop goroutines started so far
  conpc,          \* the user's Connect: where it is, or what the last call returned
  dpc,            \* the user's Disconnect: where it is, or what the last call returned
  recon,          \* the reconnect goroutine: [pc, retries]
  counts,         \* how often each bounded event happened
  metrics,        \* Metrics: the Retries counter
  lastAlloc,      \* the request id nextRequestID returned last, and whether it wrapped
  crashed,        \* "" or the panic that ended the process
  version,        \* ClientOptions.Version
  creq,           \* caller: pdu, the request the operation built
  cret,           \* caller: what the operation returned, [vars, err]
  maxRepetitions, \* ClientOptions.MaxRepetitions
  agent,          \* the agent: [compliant, mib, errors]
  wpc,            \* walk: program counter inside Walk / WalkFunc
  wfn,            \* walk: the function called, "Walk" or "WalkFunc"
  rootOID,        \* walk: the argument rootOID
  currentOID,     \* walk: currentOID
  wvars,          \* walk: vars, the variables of the response being processed
  wi,             \* walk: the index of the range loop over vars
  results,        \* walk: results of Walk; the variables given to fn by WalkFunc
  wret,           \* walk: the error the call returned
  wctx,           \* walk: ctx.Done() is closed
  whist,          \* walk: history of the call
  ber,            \* the BER codec: the value given, its encoding, the value decoded
  listener,       \* TrapListener: its fields, its listen goroutine, Start and Stop
  inbox,          \* the datagrams the listener's socket has received and not yet returned
  handlers,       \* the goroutines started by go l.handler(trap)
  lhist,          \* listener: history of the run
  pool,           \* Pool: clients (the slots), done, wg, robin, mu
  pclients,       \* the clients made by the pool: [state, reconnecting]
  hc,             \* the healthChecker goroutine: where it is, and the locals of checkHealth
  users,          \* the goroutines that call Pool.Get and Pool.Release
  closer          \* the call of Pool.Close: where it is

vars == <<state, conn, socks, done, doneClosed, wg, requestID, pending,
          autoReconnect, cpc, cid, cretry, clastErr, cresult, cgot, cdata,
          chans, cancelled, emitted, chist, readers, conpc, dpc, recon,
          counts, metrics, lastAlloc, crashed, version, creq, cret,
          maxRepetitions, agent, wpc, wfn, rootOID, currentOID, wvars, wi,
          results, wret, wctx, whist, ber, listener, inbox, handlers,
          lhist, pool, pclients, hc, users, closer>>

clientVars == <<state, conn, socks, done, doneClosed, wg, autoReconnect>>
clientVars_noSocks == <<state, conn, done, doneClosed, wg, autoReconnect>>
callerVars == <<cpc, cid, cretry, clastErr, cresult, cgot, cdata, chans,
                cancelled, emitted, chist>>
taskVars == <<readers, conpc, dpc, recon>>
opVars == <<version, creq, cret>>
walkVars == <<maxRepetitions, agent, wpc, wfn, rootOID, currentOID, wvars, wi,
              results, wret, wctx, whist>>
trapVars == <<listener, inbox, handlers, lhist>>
poolVars == <<pool, pclients, hc, users, closer>>
extVars == <<ber, trapVars, poolVars>>
coreVars == <<clientVars, requestID, pending, callerVars, taskVars, counts,
              metrics, lastAlloc, crashed, opVars, walkVars>>

(***************************************************************************)
(* Helpers on the pending map and on channels.                             *)
(***************************************************************************)
MapPut(m, k, v) == [x \in DOMAIN m \cup {k} |-> IF x = k THEN v ELSE m[x]]
MapDel(m, k) == [x \in DOMAIN m \ {k} |-> m[x]]
EmptyMap == [x \in {} |-> 0]

NewChan == [buf |-> <<>>, closed |-> FALSE]

\* History of a call: atDisconnect is set when Disconnect is called (its
\* CompareAndSwap succeeds) while the call has its entry in pending.
NoHist == [atDisconnect |-> FALSE]

\* History of a walk: the requests it issued, the OID the last one asked
\* for, the error and the number of variables the last one returned, the
\* responses in a row that did not move currentOID forward, the calls of
\* fn, and whether fn returned an error.
NoWalkHist ==
  [reqs |-> 0, asked |-> <<>>, err |-> "nil", status |-> 0, got |-> 0,
   stalls |-> 0, calls |-> 0, fnErr |-> FALSE]

\* An agent that answers a request with no error or with one of the error
\* statuses and indexes errs, and a request of a walk with any variables
\* at all.
AnyAgent(errs) == [compliant |-> FALSE, mib |-> {}, errors |-> errs]

(***************************************************************************)
(* Request ids.  requestID++ on an int32 wraps modulo 2^32 (Go defines     *)
(* signed overflow as wrap-around).                                        *)
(***************************************************************************)
Inc32(x) == IF x = MaxInt32 THEN MinInt32 ELSE x + 1

\* The allocator without its correction of a wrapped counter.
nextRequestIDNoFix(x) == Inc32(x)

nextRequestID(x) ==
  LET y == Inc32(x) IN IF y <= 0 THEN 1 ELSE y

\* n successive calls of nextRequestID from counter x (x in 0..MaxInt32,
\* 0 <= n <= MaxInt32), without computing past the 32-bit range.
nextRequestIDTimes(x, n) ==
  IF n <= MaxInt32 - x THEN x + n ELSE n - (MaxInt32 - x)

Alloc(x) == [id |-> nextRequestID(x), wrapped |-> Inc32(x) <= 0]

(***************************************************************************)
(* Requests and their encoding.  An OID is a sequence of numbers, a        *)
(* variable is an OID and the type of its value, a request is a PDU (the   *)
(* request id is kept apart, in cid); encodeVariable supports the value    *)
(* types of its switch and fails on every other type (the exception        *)
(* markers).                                                               *)
(***************************************************************************)
PDUGetRequest == 160
PDUGetNextRequest == 161
PDUSetRequest == 163
PDUGetBulkRequest == 165
TypeInteger == 2
TypeOctetString == 4
TypeNull == 5
TypeObjectIdentifier == 6
TypeIPAddress == 64
TypeCounter32 == 65
TypeGauge32 == 66
TypeTimeTicks == 67
TypeOpaque == 68
TypeCounter64 == 70
TypeUInteger32 == 71
TypeNoSuchObject == 128
TypeNoSuchInstance == 129
TypeEndOfMibView == 130
DefaultMaxRepetitions == 10

ExceptionMarkers == {TypeNoSuchObject, TypeNoSuchInstance, TypeEndOfMibView}

\* A prefix test that compares the first number only.
HasPrefixFirstOnly(o, prefix) == o[1] = prefix[1]

\* OID.HasPrefix
HasPrefix(o, prefix) ==
  /\ Len(prefix) <= Len(o)
  /\ \A i \in 1..Len(prefix) : o[i] = prefix[i]

Variable(o, t) == [oid |-> o, type |-> t]

\* The variables the request constructors make of a list of OIDs.
NullVariables(oids) == [i \in 1..Len(oids) |-> Variable(oids[i], TypeNull)]

NewPDU(t, nr, mr, variables) ==
  [type |-> t, nonRepeaters |-> nr, maxRepetitions |-> mr, vars |-> variables]

NewGetRequest(oids) == NewPDU(PDUGetRequest, 0, 0, NullVariables(oids))
NewGetNextRequest(oids) == NewPDU(PDUGetNextRequest, 0, 0, NullVariables(oids))
NewGetBulkRequest(nr, mr, oids) == NewPDU(PDUGetBulkRequest, nr, mr, NullVariables(oids))
NewSetRequest(variables) == NewPDU(PDUSetRequest, 0, 0, variables)

\* No PDU: the caller has not built its request.
NoReq == NewPDU(0, 0, 0, <<>>)

\* The OID an operation is given at position i of its arguments.
ArgOID(i) == <<1, 3, i>>

Requests == {NewGetRequest(<<ArgOID(1)>>),
             NewSetRequest(<<Variable(ArgOID(1), TypeEndOfMibView)>>)}

\* The cases of the switch of encodeVariable; every other type is an error.
EncodableTypes == {TypeNull, TypeInteger, TypeOctetString, TypeObjectIdentifier,
                   TypeIPAddress, TypeCounter32, TypeGauge32, TypeTimeTicks,
                   TypeUInteger32, TypeCounter64, TypeOpaque}

\* An encoder that has a case for every type.
encodeVariableAnyType(vtype) == TRUE

\* TRUE when encodeVariable returns no error for a value of this type.
encodeVariable(vtype) == vtype \in EncodableTypes

\* TRUE when encodeVariableBindings returns no error: every variable of the
\* list is encoded, in order, and the first error is returned.
encodeVariableBindings(variables) ==
  \A i \in 1..Len(variables) : encodeVariable(variables[i].type)

\* Message.Encode: version, community and the PDU: its type, its request
\* id, non-repeaters and max-repetitions (GetBulk) or error status and
\* error index (both 0 in a request), and its variables.
Encode(req, id) ==
  <<version, "public", req.type, id,
    IF req.type = PDUGetBulkRequest
      THEN <<req.nonRepeaters, req.maxRepetitions>> ELSE <<NoError, 0>>,
    req.vars>>

(***************************************************************************)
(* Get and sendRequest, one caller c.                                      *)
(***************************************************************************)
\* A sendRequest that leaves its entry in pending when it returns.
DeferredDeleteSkipped(m, id) == m

\* The deferred delete(c.pending, pdu.RequestID) of sendRequest.
DeferredDelete(m, id) == MapDel(m, id)

\* A loop that makes one attempt more.
LoopContinuesOnceMore(retry) == retry <= Retries + 1

\* The loop test retry <= c.opts.Retries.
LoopContinues(retry) == retry <= Retries

\* sendRequest returns res (or panics): the deferred delete runs, and the
\* locals of the call (retry, lastErr, data, respCh) are gone.
Return(c, res, m) ==
  /\ cpc' = [cpc EXCEPT ![c] = "done"]
  /\ cresult' = [cresult EXCEPT ![c] = res]
  /\ pending' = DeferredDelete(m, cid[c])
  /\ cretry' = [cretry EXCEPT ![c] = 0]
  /\ clastErr' = [clastErr EXCEPT ![c] = ""]
  /\ cdata' = [cdata EXCEPT ![c] = <<>>]
  /\ chans' = [chans EXCEPT ![c] = NewChan]

\* Client.Get up to the state check of sendRequest: allocate the request
\* id, build the PDU, return ErrNotConnected unless Connected.  The calls
\* of nextRequestID are ordered by its mutex, and the callers are numbered
\* in that order.
Get(c) ==
  /\ crashed = "" /\ cpc[c] = "idle"
  /\ \A b \in Callers : b < c => cpc[b] # "idle"
  /\ LET a == Alloc(requestID) IN
       /\ requestID' = a.id
       /\ lastAlloc' = a
       /\ cid' = [cid EXCEPT ![c] = a.id]
  /\ IF state = "Connected"
       THEN /\ cpc' = [cpc EXCEPT ![c] = "insert"]
            /\ cresult' = cresult
       ELSE /\ cpc' = [cpc EXCEPT ![c] = "done"]
            /\ cresult' = [cresult EXCEPT ![c] = "NotConnected"]
  /\ UNCHANGED <<opVars, walkVars, extVars, clientVars, pending, cretry, clastErr, cgot, cdata, chans,
                 cancelled, emitted, chist, taskVars, counts, metrics, crashed>>

\* The arguments of the operations: lists of up to MaxArgs OIDs, and lists
\* of variables to set, each of an integer or of an exception marker.
OidLists == {[i \in 1..n |-> ArgOID(i)] : n \in 0..MaxArgs}
SetTypes == {TypeInteger} \cup ExceptionMarkers
VariableLists ==
  UNION {{[i \in 1..n |-> Variable(ArgOID(i), ts[i])] : ts \in [1..n -> SetTypes]}
          : n \in 0..MaxArgs}
\* nonRepeaters and maxRepetitions given to GetBulk.
BulkArgs == {<<0, DefaultMaxRepetitions>>, <<1, 0>>}

\* Caller c may call an operation: it has made no call yet, and the callers
\* are numbered in the order of their calls of nextRequestID.
CallStarts(c) ==
  /\ crashed = "" /\ cpc[c] = "idle"
  /\ \A b \in Callers : b < c => cpc[b] # "idle"

\* What Get, GetNext, GetBulk and Set do alike, up to the state check of
\* sendRequest: allocate the request id, build the PDU, return
\* ErrNotConnected unless Connected.
Operation(c, pdu) ==
  /\ LET a == Alloc(requestID) IN
       /\ requestID' = a.id
       /\ lastAlloc' = a
       /\ cid' = [cid EXCEPT ![c] = a.id]
  /\ creq' = [creq EXCEPT ![c] = pdu]
  /\ IF state = "Connected"
       THEN /\ cpc' = [cpc EXCEPT ![c] = "insert"]
            /\ cresult' = cresult
       ELSE /\ cpc' = [cpc EXCEPT ![c] = "done"]
            /\ cresult' = [cresult EXCEPT ![c] = "NotConnected"]
  /\ UNCHANGED <<version, cret, walkVars, extVars, clientVars, pending, cretry, clastErr,
                 cgot, cdata, chans, cancelled, emitted, chist, taskVars, counts,
                 metrics, crashed>>

\* Client.Get with its arguments.
Client_Get(c) ==
  /\ CallStarts(c)
  /\ \E oids \in OidLists : Operation(c, NewGetRequest(oids))

\* Client.GetNext
Client_GetNext(c) ==
  /\ CallStarts(c)
  /\ \E oids \in OidLists : Operation(c, NewGetNextRequest(oids))

\* Client.Set
Client_Set(c) ==
  /\ CallStarts(c)
  /\ \E variables \in VariableLists : Operation(c, NewSetRequest(variables))

\* A GetBulk that allocates the request id before it looks at the version.
GetBulk_rejectedAfterAlloc(c) ==
  /\ cpc' = [cpc EXCEPT ![c] = "done"]
  /\ cresult' = [cresult EXCEPT ![c] = "GetBulk not supported in SNMPv1"]
  /\ requestID' = nextRequestID(requestID)
  /\ UNCHANGED <<opVars, walkVars, extVars, clientVars, pending, cid, cretry, clastErr,
                 cgot, cdata, chans, cancelled, emitted, chist, taskVars, counts,
                 metrics, lastAlloc, crashed>>

\* Client.GetBulk on a client of version 1: the error is returned at once.
GetBulk_rejected(c) ==
  /\ cpc' = [cpc EXCEPT ![c] = "done"]
  /\ cresult' = [cresult EXCEPT ![c] = "GetBulk not supported in SNMPv1"]
  /\ UNCHANGED <<opVars, walkVars, extVars, clientVars, requestID, pending, cid, cretry,
                 clastErr, cgot, cdata, chans, cancelled, emitted, chist, taskVars,
                 counts, metrics, lastAlloc, crashed>>

\* Client.GetBulk
Client_GetBulk(c) ==
  /\ CallStarts(c)
  /\ \E oids \in OidLists, args \in BulkArgs :
       IF version = Version1
         THEN GetBulk_rejected(c)
         ELSE Operation(c, NewGetBulkRequest(args[1], args[2], oids))

\* The PDU sendRequest is given: the one the operation built, or, after a
\* Get whose arguments were left open, any of Requests.
RequestsOf(c) == IF creq[c] = NoReq THEN Requests ELSE {creq[c]}

\* sendRequest: make respCh, insert it into pending, encode the message; an
\* encode failure returns through the deferred delete.
sendRequest_insert(c) ==
  /\ crashed = "" /\ cpc[c] = "insert"
  /\ \E req \in RequestsOf(c) :
       /\ creq' = [creq EXCEPT ![c] = req]
       /\ cret' = cret
       /\ IF encodeVariableBindings(req.vars)
         THEN /\ pending' = MapPut(pending, cid[c], c)
              /\ chans' = [chans EXCEPT ![c] = NewChan]
              /\ cdata' = [cdata EXCEPT ![c] = Encode(req, cid[c])]
              /\ cpc' = [cpc EXCEPT ![c] = "write"]
              /\ UNCHANGED <<cresult, cretry, clastErr, counts>>
         ELSE /\ counts.faults < MaxFaults
              /\ counts' = [counts EXCEPT !.faults = @ + 1]
              /\ Return(c, "EncodeError", MapPut(pending, cid[c], c))
  /\ UNCHANGED <<version, walkVars, extVars, clientVars, requestID, cid, cgot, cancelled, emitted, chist,
                 taskVars, metrics, lastAlloc, crashed>>

\* What the loop does after an attempt that ended with lastErr = err:
\* retry++, and either the next attempt or return nil, lastErr.
NextAttempt(c, err) ==
  IF LoopContinues(cretry[c] + 1)
    THEN /\ clastErr' = [clastErr EXCEPT ![c] = err]
         /\ cretry' = [cretry EXCEPT ![c] = @ + 1]
         /\ cpc' = [cpc EXCEPT ![c] = "write"]
         /\ UNCHANGED <<cresult, pending, cdata, chans>>
    ELSE Return(c, err, pending)

\* After conn.Write failed: lastErr is set and the loop continues.
AfterWriteError(c) == NextAttempt(c, "WriteFailed")

\* One attempt of the loop up to the write: count the retry, set the write
\* deadline on c.conn and write data.  c.conn is read without a lock: nil
\* makes the method call panic; a closed socket makes Write fail.
sendRequest_write(c) ==
  /\ crashed = "" /\ cpc[c] = "write"
  /\ metrics' = [metrics EXCEPT !.Retries = @ + (IF cretry[c] > 0 THEN 1 ELSE 0)]
  /\ \/ /\ conn = 0
        /\ crashed' = "nil conn in sendRequest"
        /\ Return(c, "Panic", pending)
        /\ UNCHANGED <<socks, emitted, counts>>
     \/ /\ conn # 0 /\ socks[conn].open
        /\ socks' = [socks EXCEPT ![conn].sent = @ \cup {cid[c]}]
        /\ emitted' = [emitted EXCEPT ![c] = Append(@, cdata[c])]
        /\ cpc' = [cpc EXCEPT ![c] = "await"]
        /\ UNCHANGED <<pending, cresult, cretry, clastErr, cdata, chans,
                       counts, crashed>>
     \/ /\ conn # 0
        /\ \/ /\ ~socks[conn].open
              /\ counts' = counts
           \/ /\ socks[conn].open
              /\ counts.faults < MaxFaults
              /\ counts' = [counts EXCEPT !.faults = @ + 1]
        /\ AfterWriteError(c)
        /\ UNCHANGED <<socks, emitted, crashed>>
  /\ UNCHANGED <<opVars, walkVars, extVars, clientVars_noSocks, requestID, cid, cgot, cancelled, chist,
                 taskVars, lastAlloc>>

\* The result of a call whose select received resp from respCh.
ResultOf(resp) == IF resp.es # NoError THEN "SNMPError" ELSE "OK"

\* Error values: nil, an *SNMPError with its fields, or a sentinel error
\* (kind is its name).  RequestOID <<>> is the nil OID.
NilError == [kind |-> "nil", status |-> NoError, index |-> 0, oid |-> <<>>]
Sentinel(name) == [kind |-> name, status |-> NoError, index |-> 0, oid |-> <<>>]
NewSNMPError(status, index, o) ==
  [kind |-> "SNMPError", status |-> status, index |-> index, oid |-> o]

\* An error OID looked up with the error index taken as 0-based.
ErrorOIDZeroBased(pdu, ei) ==
  IF ei >= 0 /\ ei < Len(pdu.vars) THEN pdu.vars[ei + 1].oid ELSE <<>>

\* sendRequest: the OID of the request's variable the error index of the
\* response names, nil when the index is out of range.
ErrorOID(pdu, ei) ==
  IF ei > 0 /\ ei <= Len(pdu.vars) THEN pdu.vars[ei].oid ELSE <<>>

\* What Get, GetNext, GetBulk and Set return when sendRequest received
\* resp: nil and the SNMPError of an error response, else resp.Variables
\* (the variables themselves are not modelled) and nil.
OperationReturns(pdu, resp) ==
  IF resp.es # NoError
    THEN [vars |-> "nil",
          err |-> NewSNMPError(resp.es, resp.ei, ErrorOID(pdu, resp.ei))]
    ELSE [vars |-> "resp.Variables", err |-> NilError]

\* An operation has not returned, or returned an error kept in cresult.
NoRet == [vars |-> "nil", err |-> NilError]

\* select, case resp, ok := <-respCh with a buffered PDU.
sendRequest_response(c) ==
  /\ crashed = "" /\ cpc[c] = "await"
  /\ chans[c].buf # <<>>
  /\ cgot' = [cgot EXCEPT ![c] = Head(chans[c].buf)]
  /\ cret' = [cret EXCEPT ![c] = OperationReturns(creq[c], Head(chans[c].buf))]
  /\ creq' = creq
  /\ Return(c, ResultOf(Head(chans[c].buf)), pending)
  /\ UNCHANGED <<version, walkVars, extVars, clientVars, requestID, cid, cancelled, emitted, chist,
                 taskVars, counts, metrics, lastAlloc, crashed>>

\* select, case resp, ok := <-respCh on a closed, empty channel: !ok.
sendRequest_closed(c) ==
  /\ crashed = "" /\ cpc[c] = "await"
  /\ chans[c].buf = <<>> /\ chans[c].closed
  /\ Return(c, "ClientClosed", pending)
  /\ UNCHANGED <<opVars, walkVars, extVars, clientVars, requestID, cid, cgot, cancelled, emitted, chist,
                 taskVars, counts, metrics, lastAlloc, crashed>>

\* select, case <-time.After(c.opts.Timeout).
sendRequest_timeout(c) ==
  /\ crashed = "" /\ cpc[c] = "await"
  /\ NextAttempt(c, "Timeout")
  /\ UNCHANGED <<opVars, walkVars, extVars, clientVars, requestID, cid, cgot, cancelled, emitted, chist,
                 taskVars, counts, metrics, lastAlloc, crashed>>

\* select, case <-ctx.Done().
sendRequest_cancelled(c) ==
  /\ crashed = "" /\ cpc[c] = "await"
  /\ cancelled[c]
  /\ Return(c, "Cancelled", pending)
  /\ UNCHANGED <<opVars, walkVars, extVars, clientVars, requestID, cid, cgot, cancelled, emitted, chist,
                 taskVars, counts, metrics, lastAlloc, crashed>>

\* The caller's context is cancelled while the request awaits its response.
Cancel(c) ==
  /\ crashed = "" /\ cpc[c] = "await" /\ ~cancelled[c]
  /\ counts.faults < MaxFaults
  /\ counts' = [counts EXCEPT !.faults = @ + 1]
  /\ cancelled' = [cancelled EXCEPT ![c] = TRUE]
  /\ UNCHANGED <<opVars, walkVars, extVars, clientVars, requestID, pending, cpc, cid, cretry, clastErr,
                 cresult, cgot, cdata, chans, emitted, chist, taskVars,
                 metrics, lastAlloc, crashed>>

(***************************************************************************)
(* failPending: close every response channel in pending and empty it.      *)
(***************************************************************************)
InPending == {pending[k] : k \in DOMAIN pending}

failPending ==
  /\ chans' = [c \in Callers |->
                 IF c \in InPending THEN [chans[c] EXCEPT !.closed = TRUE]
                 ELSE chans[c]]
  /\ pending' = EmptyMap

(***************************************************************************)
(* Connect, for the task that calls it: the user or the reconnect loop.    *)
(***************************************************************************)
NewReader == [pc |-> "top", sock |-> 0, msg |-> NoMsg]

\* A Connect that stores StateConnecting without comparing.
Connect_noCas == state' = "Connecting"

\* state.CompareAndSwap(StateDisconnected, StateConnecting)
Connect_cas ==
  /\ state = "Disconnected"
  /\ state' = "Connecting"

\* DialContext succeeded: c.conn = conn; state.Store(StateConnected).
Connect_dialled ==
  /\ socks' = Append(socks, [open |-> TRUE, sent |-> {}])
  /\ conn' = Len(socks) + 1
  /\ state' = "Connected"

\* No target, or DialContext failed: state.Store(StateDisconnected).
Connect_failed ==
  /\ state' = "Disconnected"
  /\ UNCHANGED <<conn, socks>>

\* c.done = make(chan struct{}); c.wg.Add(1); go c.readLoop()
Connect_start ==
  /\ doneClosed' = Append(doneClosed, FALSE)
  /\ done' = Len(doneClosed) + 1
  /\ wg' = wg + 1
  /\ readers' = Append(readers, NewReader)

\* What a call of Connect or Disconnect that is over returned ("idle": no
\* call was made yet).
Returned == {"idle", "nil", "ErrAlreadyConnected", "ErrNotConnected",
             "connection failed"}

UserConnect_cas(limit) ==
  /\ crashed = "" /\ conpc \in Returned /\ counts.connects < limit
  /\ counts' = [counts EXCEPT !.connects = @ + 1]
  /\ \/ Connect_cas /\ conpc' = "dial"
     \/ state # "Disconnected" /\ state' = state /\ conpc' = "ErrAlreadyConnected"
  /\ UNCHANGED <<opVars, walkVars, extVars, conn, socks, done, doneClosed, wg, autoReconnect, requestID,
                 pending, callerVars, readers, dpc, recon, metrics, lastAlloc,
                 crashed>>

UserConnect_dial ==
  /\ crashed = "" /\ conpc = "dial"
  /\ \/ Connect_dialled /\ conpc' = "start"
     \/ Connect_failed /\ conpc' = "connection failed"
  /\ UNCHANGED <<opVars, walkVars, extVars, done, doneClosed, wg, autoReconnect, requestID, pending,
                 callerVars, readers, dpc, recon, counts, metrics, lastAlloc,
                 crashed>>

UserConnect_start ==
  /\ crashed = "" /\ conpc = "start"
  /\ Connect_start
  /\ conpc' = "nil"
  /\ UNCHANGED <<opVars, walkVars, extVars, state, conn, socks, autoReconnect, requestID, pending,
                 callerVars, dpc, recon, counts, metrics, lastAlloc, crashed>>

(***************************************************************************)
(* The reconnect goroutines, started by handleConnectionLost.              *)
(***************************************************************************)
\* After a failed Connect: retries++, stop at MaxRetries, else sleep and loop.
AfterFailedConnect(t) ==
  IF MaxRetriesOpt > 0 /\ t.retries + 1 >= MaxRetriesOpt
    THEN [t EXCEPT !.pc = "exit", !.retries = 0]
    ELSE [t EXCEPT !.pc = "try", !.retries = @ + 1]

reconnect_try(i) ==
  /\ crashed = "" /\ i \in DOMAIN recon /\ recon[i].pc = "try"
  /\ counts.reconnects < MaxReconnects
  /\ counts' = [counts EXCEPT !.reconnects = @ + 1]
  /\ \/ Connect_cas /\ recon' = [recon EXCEPT ![i].pc = "dial"]
     \/ /\ state # "Disconnected" /\ state' = state
        /\ recon' = [recon EXCEPT ![i] = AfterFailedConnect(@)]
  /\ UNCHANGED <<opVars, walkVars, extVars, conn, socks, done, doneClosed, wg, autoReconnect, requestID,
                 pending, callerVars, readers, conpc, dpc, metrics, lastAlloc,
                 crashed>>

reconnect_dial(i) ==
  /\ crashed = "" /\ i \in DOMAIN recon /\ recon[i].pc = "dial"
  /\ \/ Connect_dialled /\ recon' = [recon EXCEPT ![i].pc = "start"]
     \/ Connect_failed /\ recon' = [recon EXCEPT ![i] = AfterFailedConnect(@)]
  /\ UNCHANGED <<opVars, walkVars, extVars, done, doneClosed, wg, autoReconnect, requestID, pending,
                 callerVars, readers, conpc, dpc, counts, metrics, lastAlloc,
                 crashed>>

reconnect_start(i) ==
  /\ crashed = "" /\ i \in DOMAIN recon /\ recon[i].pc = "start"
  /\ Connect_start
  /\ recon' = [recon EXCEPT ![i] = [pc |-> "exit", retries |-> 0]]
  /\ UNCHANGED <<opVars, walkVars, extVars, state, conn, socks, autoReconnect, requestID, pending,
                 callerVars, conpc, dpc, counts, metrics, lastAlloc, crashed>>

(***************************************************************************)
(* Disconnect.                                                             *)
(***************************************************************************)
\* state.CompareAndSwap(StateConnected, StateDisconnecting)
Disconnect_cas ==
  /\ crashed = "" /\ dpc \in Returned /\ counts.disconnects < MaxDisconnects
  /\ counts' = [counts EXCEPT !.disconnects = @ + 1]
  /\ IF state = "Connected"
       THEN /\ state' = "Disconnecting" /\ dpc' = "store"
            /\ chist' = [c \in Callers |->
                           [atDisconnect |-> chist[c].atDisconnect \/ c \in InPending]]
       ELSE state' = state /\ dpc' = "ErrNotConnected" /\ chist' = chist
  /\ UNCHANGED <<opVars, walkVars, extVars, conn, socks, done, doneClosed, wg, autoReconnect, requestID,
                 pending, cpc, cid, cretry, clastErr, cresult, cgot, cdata,
                 chans, cancelled, emitted, readers, conpc, recon, metrics,
                 lastAlloc, crashed>>

\* state.Store(StateDisconnected)
Disconnect_store ==
  /\ crashed = "" /\ dpc = "store"
  /\ state' = "Disconnected"
  /\ dpc' = "close"
  /\ UNCHANGED <<opVars, walkVars, extVars, conn, socks, done, doneClosed, wg, autoReconnect, requestID,
                 pending, callerVars, readers, conpc, recon, counts, metrics,
                 lastAlloc, crashed>>

\* close(c.done): closing a closed channel panics.
CloseDone ==
  IF doneClosed[done]
    THEN crashed' = "close of closed channel" /\ doneClosed' = doneClosed
    ELSE crashed' = crashed /\ doneClosed' = [doneClosed EXCEPT ![done] = TRUE]

\* if c.conn != nil { c.conn.Close(); c.conn = nil }
CloseConn ==
  IF conn # 0
    THEN socks' = [socks EXCEPT ![conn].open = FALSE] /\ conn' = 0
    ELSE UNCHANGED <<socks, conn>>

Disconnect_close ==
  /\ crashed = "" /\ dpc = "close"
  /\ CloseDone
  /\ dpc' = "wait"
  /\ UNCHANGED <<opVars, walkVars, extVars, state, conn, socks, done, wg, autoReconnect, requestID,
                 pending, callerVars, readers, conpc, recon, counts, metrics,
                 lastAlloc>>

\* c.wg.Wait()
Disconnect_wait ==
  /\ crashed = "" /\ dpc = "wait"
  /\ wg = 0
  /\ dpc' = "conn"
  /\ UNCHANGED <<opVars, walkVars, extVars, clientVars, requestID, pending, callerVars, readers, conpc,
                 recon, counts, metrics, lastAlloc, crashed>>

Disconnect_conn ==
  /\ crashed = "" /\ dpc = "conn"
  /\ CloseConn
  /\ dpc' = "fail"
  /\ UNCHANGED <<opVars, walkVars, extVars, state, done, doneClosed, wg, autoReconnect, requestID,
                 pending, callerVars, readers, conpc, recon, counts, metrics,
                 lastAlloc, crashed>>

\* c.failPending(ErrClientClosed); return nil
Disconnect_fail ==
  /\ crashed = "" /\ dpc = "fail"
  /\ failPending
  /\ dpc' = "nil"
  /\ UNCHANGED <<opVars, walkVars, extVars, clientVars, requestID, cpc, cid, cretry, clastErr, cresult,
                 cgot, cdata, cancelled, emitted, chist, readers, conpc, recon,
                 counts, metrics, lastAlloc, crashed>>

(***************************************************************************)
(* readLoop, one goroutine r, and handleConnectionLost, which it calls.    *)
(***************************************************************************)
\* readLoop returns: its locals are gone, and the deferred c.wg.Done() runs.
ReaderExit(r) ==
  /\ readers' = [readers EXCEPT ![r] = [pc |-> "exit", sock |-> 0, msg |-> NoMsg]]
  /\ wg' = wg - 1

\* The select on c.done at the top of the loop, then SetReadDeadline on
\* c.conn: nil makes the method call panic.
readLoop_top(r) ==
  /\ crashed = "" /\ r \in DOMAIN readers /\ readers[r].pc = "top"
  /\ IF doneClosed[done]
       THEN ReaderExit(r) /\ crashed' = crashed
       ELSE /\ wg' = wg
            /\ IF conn = 0
                 THEN crashed' = "nil conn in readLoop" /\ readers' = readers
                 ELSE /\ crashed' = crashed
                      /\ readers' = [readers EXCEPT ![r].pc = "read", ![r].sock = conn]
  /\ UNCHANGED <<opVars, walkVars, extVars, state, conn, socks, done, doneClosed, autoReconnect,
                 requestID, pending, callerVars, conpc, dpc, recon, counts,
                 metrics, lastAlloc>>

\* conn.Read returns a datagram the agent sent in answer to a request
\* written on this socket; DecodeMessage gives its request id and status.
readLoop_datagram(r) ==
  /\ crashed = "" /\ r \in DOMAIN readers /\ readers[r].pc = "read"
  /\ socks[readers[r].sock].open
  /\ \E rid \in socks[readers[r].sock].sent, es \in ErrorStatuses,
        ei \in ErrorIndexes :
       /\ es = NoError => ei = 0
       /\ es # NoError => <<es, ei>> \in agent.errors
       /\ readers' = [readers EXCEPT ![r].pc = "lookup",
                                     ![r].msg = [rid |-> rid, es |-> es, ei |-> ei]]
       /\ IF es = NoError
            THEN counts' = counts
            ELSE /\ counts.faults < MaxFaults
                 /\ counts' = [counts EXCEPT !.faults = @ + 1]
  /\ UNCHANGED <<opVars, walkVars, extVars, clientVars, requestID, pending, callerVars, conpc, dpc,
                 recon, metrics, lastAlloc, crashed>>

\* conn.Read returns a timeout error (the read deadline expired).
readLoop_deadline(r) ==
  /\ crashed = "" /\ r \in DOMAIN readers /\ readers[r].pc = "read"
  /\ socks[readers[r].sock].open
  /\ IF doneClosed[done]
       THEN ReaderExit(r)
       ELSE readers' = [readers EXCEPT ![r].pc = "top"] /\ wg' = wg
  /\ UNCHANGED <<opVars, walkVars, extVars, state, conn, socks, done, doneClosed, autoReconnect,
                 requestID, pending, callerVars, conpc, dpc, recon, counts,
                 metrics, lastAlloc, crashed>>

\* handleConnectionLost, first statement:
\* state.CompareAndSwap(StateConnected, StateDisconnected), else return.
handleConnectionLost_cas(r) ==
  IF state = "Connected"
    THEN /\ state' = "Disconnected"
         /\ readers' = [readers EXCEPT ![r].pc = "lost"]
         /\ wg' = wg
    ELSE /\ state' = state
         /\ ReaderExit(r)

\* conn.Read returns another error: the socket was closed, or the network
\* reported an I/O error.
readLoop_error(r) ==
  /\ crashed = "" /\ r \in DOMAIN readers /\ readers[r].pc = "read"
  /\ \/ ~socks[readers[r].sock].open /\ counts' = counts
     \/ /\ socks[readers[r].sock].open
        /\ counts.faults < MaxFaults
        /\ counts' = [counts EXCEPT !.faults = @ + 1]
  /\ IF doneClosed[done]
       THEN ReaderExit(r) /\ state' = state
       ELSE handleConnectionLost_cas(r)
  /\ UNCHANGED <<opVars, walkVars, extVars, conn, socks, done, doneClosed, autoReconnect, requestID,
                 pending, callerVars, conpc, dpc, recon, metrics, lastAlloc,
                 crashed>>

\* A lookup that disregards the request id: any entry of pending.
LookupAny(m, rid) ==
  IF DOMAIN m # {} THEN m[CHOOSE k \in DOMAIN m : TRUE] ELSE 0

\* A lookup that falls back on some entry when the id has none.
LookupOrFirst(m, rid) ==
  IF rid \in DOMAIN m THEN m[rid] ELSE LookupAny(m, rid)

\* What the lookup of a request id in pending gives the reader: the
\* channel to send to, or 0.
Lookup(m, rid) == IF rid \in DOMAIN m THEN m[rid] ELSE 0

\* A send to a channel that takes every PDU.
DeliverQueued(ch, msg) == [ch EXCEPT !.buf = Append(@, msg)]

\* select { case ch <- msg.PDU: default: }: a send that does not block; the
\* channel holds one PDU, a second one is dropped.
Deliver(ch, msg) == IF ch.buf = <<>> THEN [ch EXCEPT !.buf = <<msg>>] ELSE ch

\* ch, ok := c.pending[msg.PDU.RequestID] under the read lock, then the
\* send to ch if ok, and back to the top of the loop.  (A channel in
\* pending is open: failPending closes and removes under the lock.)
readLoop_dispatch(r) ==
  /\ crashed = "" /\ r \in DOMAIN readers /\ readers[r].pc = "lookup"
  /\ LET ch == Lookup(pending, readers[r].msg.rid) IN
       /\ chans' = IF ch # 0 THEN [chans EXCEPT ![ch] = Deliver(@, readers[r].msg)]
                   ELSE chans
       /\ readers' = [readers EXCEPT ![r].pc = "top", ![r].msg = NoMsg]
  /\ UNCHANGED <<opVars, walkVars, extVars, clientVars, requestID, pending, cpc, cid, cretry, clastErr,
                 cresult, cgot, cdata, cancelled, emitted, chist, conpc, dpc,
                 recon, counts, metrics, lastAlloc, crashed>>

\* handleConnectionLost: close(c.done), close and clear c.conn.
handleConnectionLost_close(r) ==
  /\ crashed = "" /\ r \in DOMAIN readers /\ readers[r].pc = "lost"
  /\ CloseDone
  /\ CloseConn
  /\ readers' = [readers EXCEPT ![r].pc = "lost2"]
  /\ UNCHANGED <<opVars, walkVars, extVars, state, done, wg, autoReconnect, requestID, pending,
                 callerVars, conpc, dpc, recon, counts, metrics, lastAlloc>>

\* handleConnectionLost: c.failPending(err); if AutoReconnect, go
\* c.reconnect(); then readLoop returns.
handleConnectionLost_fail(r) ==
  /\ crashed = "" /\ r \in DOMAIN readers /\ readers[r].pc = "lost2"
  /\ failPending
  /\ recon' = IF autoReconnect
                THEN Append(recon, [pc |-> "try", retries |-> 0])
                ELSE recon
  /\ ReaderExit(r)
  /\ UNCHANGED <<opVars, walkVars, extVars, state, conn, socks, done, doneClosed, autoReconnect,
                 requestID, cpc, cid, cretry, clastErr, cresult, cgot, cdata,
                 cancelled, emitted, chist, conpc, dpc, counts, metrics,
                 lastAlloc, crashed>>

(***************************************************************************)
(* Get calls made while the client is not Connected: each allocates a      *)
(* request id and returns ErrNotConnected.  n of them in a row.            *)
(***************************************************************************)
BurstSizes == {1, MaxInt32 - 1}

GetNotConnected(n) ==
  /\ crashed = "" /\ state # "Connected"
  /\ counts.bursts < MaxBursts
  /\ counts' = [counts EXCEPT !.bursts = @ + 1]
  /\ requestID' = nextRequestIDTimes(requestID, n)
  /\ lastAlloc' = [id |-> nextRequestIDTimes(requestID, n),
                   wrapped |-> n - 1 = MaxInt32 - requestID]
  /\ UNCHANGED <<opVars, walkVars, extVars, clientVars, pending, callerVars, taskVars, metrics, crashed>>

(***************************************************************************)
(* Walk and WalkFunc, called after Connect returned nil.  A request of the *)
(* walk, the call of GetNext or GetBulk, is one step: it allocates the     *)
(* request id and returns what sendRequest can return, an error or the     *)
(* variables of the agent's response.                                      *)
(***************************************************************************)
DefaultNonRepeaters == 0

\* The lexicographic order of OIDs: a comes before b.
OidLess(a, b) ==
  \/ Len(a) < Len(b) /\ \A i \in 1..Len(a) : a[i] = b[i]
  \/ \E i \in 1..Len(a) :
       /\ i <= Len(b) /\ a[i] < b[i]
       /\ \A j \in 1..(i - 1) : a[j] = b[j]

\* The roots walked, the OIDs of the variables an agent answers with (the
\* root and one below it, two outside), and the variables: an integer at
\* each OID, and each exception marker at an OID under the root.
Roots == {<<1, 3>>}
UnderRoot == Roots \cup {<<1, 3, 1>>}
Outside == {<<1>>, <<1, 4>>}
AgentVariables ==
  {Variable(o, TypeInteger) : o \in UnderRoot \cup Outside}
    \cup {Variable(<<1, 3, 1>>, t) : t \in ExceptionMarkers}
Batches == UNION {[1..n -> AgentVariables] : n \in 0..MaxBatch}

\* A compliant agent holds the instances mib, no OID of which is a prefix
\* of another; it answers with the lexicographic successors.
MibOIDs == Roots \cup {<<1, 3, 1>>, <<1, 3, 2>>, <<1, 3, 3>>, <<1, 4>>}
Mibs == {m \in SUBSET MibOIDs :
           \A a \in m, b \in m : a # b => ~HasPrefix(a, b)}
CompliantAgent(m) == [compliant |-> TRUE, mib |-> m, errors |-> {}]

Successors(mib, o) == {x \in mib : OidLess(o, x)}
Least(S) == CHOOSE x \in S : \A y \in S : x = y \/ OidLess(x, y)

\* The first n successors of o, in order.
RECURSIVE NextOIDs(_, _, _)
NextOIDs(mib, o, n) ==
  IF n = 0 \/ Successors(mib, o) = {} THEN <<>>
  ELSE LET x == Least(Successors(mib, o)) IN <<x>> \o NextOIDs(mib, x, n - 1)

\* The full response to GetBulk(0, n, o): the n successors, and past the
\* end of the MIB endOfMibView at the last OID.
BulkVariables(mib, o, n) ==
  LET next == NextOIDs(mib, o, n)
      last == IF next = <<>> THEN o ELSE next[Len(next)]
  IN [i \in 1..n |-> IF i <= Len(next) THEN Variable(next[i], TypeInteger)
                     ELSE Variable(last, TypeEndOfMibView)]

Answer(variables, e) == [vars |-> variables, err |-> e]

\* What GetNext or GetBulk returns for pdu when the request is answered:
\* nil and the SNMPError of an error response, or the variables.  A
\* compliant agent answers GetNext with the successor, or noSuchName at
\* the end of the MIB, and GetBulk with the first variables of the full
\* response, at least one and at most max-repetitions; any other agent
\* answers with one of its errors or with any variables.
Answers(pdu) ==
  LET o == pdu.vars[1].oid IN
  IF agent.compliant
    THEN IF pdu.type = PDUGetNextRequest
           THEN IF Successors(agent.mib, o) = {}
                  THEN {Answer(<<>>, NewSNMPError(NoSuchName, 1, ErrorOID(pdu, 1)))}
                  ELSE {Answer(<<Variable(Least(Successors(agent.mib, o)), TypeInteger)>>,
                               NilError)}
           ELSE {Answer(SubSeq(BulkVariables(agent.mib, o, pdu.maxRepetitions), 1, n),
                        NilError) : n \in 1..pdu.maxRepetitions}
    ELSE {Answer(b, NilError) : b \in Batches}
           \cup {Answer(<<>>, NewSNMPError(e[1], e[2], ErrorOID(pdu, e[2])))
                   : e \in agent.errors}

\* The errors of sendRequest that are not the agent's.
TransportErrors == {Sentinel("ErrTimeout"), Sentinel("ErrNotConnected")}

\* errors.Is(err, target): SNMPError has neither Is nor Unwrap, and the
\* sentinel errors wrap nothing, so an error matches only itself.
IsEndOfMIB(err) == err = Sentinel("ErrEndOfMIB")
IsNoSuchObject(err) == err = Sentinel("ErrNoSuchObject")
IsNoSuchInstance(err) == err = Sentinel("ErrNoSuchInstance")

\* A test of the variable that looks at its OID only.
StopsOutsideOnly(v, root) == ~HasPrefix(v.oid, root)

\* The range loop returns at v: its OID is not under the root, or its type
\* is an exception marker.
Stops(v, root) ==
  \/ ~HasPrefix(v.oid, root)
  \/ v.type \in {TypeEndOfMibView, TypeNoSuchObject, TypeNoSuchInstance}

\* A WalkFunc that goes on when fn returned an error.
FnNeverHalts(e) == FALSE

\* if err := fn(v); err != nil { return err }
FnHalts(e) == e # NilError

\* A cursor that is the first variable's OID for every version.
NextCursorFirst(ver, variables) == variables[1].oid

\* currentOID after the range loop: the first variable's OID for version
\* 1, the last one's otherwise.
NextCursor(ver, variables) ==
  IF ver = Version1 THEN variables[1].oid ELSE variables[Len(variables)].oid

\* Walk or WalkFunc returns err: the locals are gone.
WalkReturn(err) ==
  /\ wpc' = "done"
  /\ wret' = err
  /\ wvars' = <<>>
  /\ wi' = 0
  /\ currentOID' = <<>>

\* The part of the state a walk does not change.
muxVars == <<clientVars, pending, callerVars, taskVars, metrics, crashed, opVars,
             maxRepetitions, agent>>

WalkStarts(fn) ==
  /\ wfn' = fn
  /\ wpc' = "loop"
  /\ \E root \in Roots : rootOID' = root /\ currentOID' = root
  /\ results' = <<>>
  /\ UNCHANGED <<muxVars, extVars, requestID, lastAlloc, counts, wvars, wi, wret, wctx, whist>>

\* Client.Walk is called.
Walk ==
  /\ crashed = "" /\ wpc = "idle" /\ conpc = "nil"
  /\ WalkStarts("Walk")

\* Client.WalkFunc is called.
WalkFunc ==
  /\ crashed = "" /\ wpc = "idle" /\ conpc = "nil"
  /\ WalkStarts("WalkFunc")

\* select, case <-ctx.Done(): the only case that is ready.
Walk_cancelled ==
  /\ crashed = "" /\ wpc = "loop" /\ wctx
  /\ WalkReturn(Sentinel("context canceled"))
  /\ UNCHANGED <<muxVars, extVars, requestID, lastAlloc, counts, wfn, rootOID, results,
                 wctx, whist>>

\* What the loop does with the answer of its request.
Walk_answer(ans) ==
  /\ whist' = [whist EXCEPT !.reqs = @ + 1, !.asked = currentOID,
                            !.err = ans.err.kind, !.status = ans.err.status,
                            !.got = Len(ans.vars)]
  /\ IF ans.err # NilError
       THEN IF IsEndOfMIB(ans.err) \/ IsNoSuchObject(ans.err) \/ IsNoSuchInstance(ans.err)
              THEN WalkReturn(NilError)
              ELSE WalkReturn(ans.err)
       ELSE IF Len(ans.vars) = 0
              THEN WalkReturn(NilError)
              ELSE /\ wvars' = ans.vars
                   /\ wi' = 1
                   /\ wpc' = "range"
                   /\ UNCHANGED <<currentOID, wret>>

\* select, default; GetNext (version 1) or GetBulk for currentOID, and the
\* tests of err and of len(vars).
Walk_request ==
  /\ crashed = "" /\ wpc = "loop" /\ ~wctx
  /\ agent.compliant \/ whist.reqs < MaxRequests
  /\ requestID' = nextRequestID(requestID)
  /\ lastAlloc' = Alloc(requestID)
  /\ LET pdu == IF version = Version1
                  THEN NewGetNextRequest(<<currentOID>>)
                  ELSE NewGetBulkRequest(DefaultNonRepeaters, maxRepetitions,
                                         <<currentOID>>)
     IN \/ /\ \E ans \in Answers(pdu) : Walk_answer(ans)
           /\ counts' = counts
        \/ /\ counts.faults < MaxFaults
           /\ counts' = [counts EXCEPT !.faults = @ + 1]
           /\ \E e \in TransportErrors : Walk_answer(Answer(<<>>, e))
  /\ UNCHANGED <<muxVars, extVars, wfn, rootOID, results, wctx>>

\* One iteration of the range loop over vars: return at a variable outside
\* the root or of an exception marker; else append it to results (Walk)
\* or give it to fn (WalkFunc), which returns nil or an error.
Walk_variable ==
  /\ crashed = "" /\ wpc = "range"
  /\ LET v == wvars[wi] IN
       IF Stops(v, rootOID)
         THEN /\ WalkReturn(NilError)
              /\ UNCHANGED <<results, whist>>
         ELSE /\ results' = Append(results, v)
              /\ \E e \in (IF wfn = "WalkFunc"
                             THEN {NilError, Sentinel("fn error")} ELSE {NilError}) :
                   /\ whist' = [whist EXCEPT
                                  !.calls = @ + (IF wfn = "WalkFunc" THEN 1 ELSE 0),
                                  !.fnErr = (e # NilError)]
                   /\ IF FnHalts(e)
                        THEN WalkReturn(e)
                        ELSE /\ currentOID' = v.oid
                             /\ wi' = IF wi < Len(wvars) THEN wi + 1 ELSE 0
                             /\ wpc' = IF wi < Len(wvars) THEN "range" ELSE "advance"
                             /\ UNCHANGED <<wvars, wret>>
  /\ UNCHANGED <<muxVars, extVars, requestID, lastAlloc, counts, wfn, rootOID, wctx>>

\* After the range loop: currentOID for the next request.
Walk_advance ==
  /\ crashed = "" /\ wpc = "advance"
  /\ currentOID' = NextCursor(version, wvars)
  /\ whist' = [whist EXCEPT !.stalls = IF OidLess(whist.asked, currentOID')
                                         THEN 0 ELSE @ + 1]
  /\ wpc' = "loop"
  /\ wvars' = <<>>
  /\ UNCHANGED <<muxVars, extVars, requestID, lastAlloc, counts, wfn, rootOID, wi, results,
                 wret, wctx>>

\* The context of the walk is cancelled.
WalkCancel ==
  /\ crashed = "" /\ wpc \in {"loop", "range", "advance"} /\ ~wctx
  /\ counts.faults < MaxFaults
  /\ counts' = [counts EXCEPT !.faults = @ + 1]
  /\ wctx' = TRUE
  /\ UNCHANGED <<muxVars, extVars, requestID, lastAlloc, wpc, wfn, rootOID, currentOID,
                 wvars, wi, results, wret, whist>>

(***************************************************************************)
(* The BER primitives of protocol.go.  A []byte is a sequence of 0..255.   *)
(***************************************************************************)
NoBer == [pc |-> "idle", int |-> 0, oid |-> <<>>, bytes |-> <<>>,
          outInt |-> 0, outOid |-> <<>>, err |-> "nil"]

\* The loop of encodeInteger for value > 0, and of encodeUnsignedInteger:
\* buf = append([]byte{byte(temp & 0xff)}, buf...); temp >>= 8.
RECURSIVE PositiveBytes(_)
PositiveBytes(temp) ==
  IF temp > 0 THEN Append(PositiveBytes(temp \div 256), temp % 256) ELSE <<>>

\* The loop of encodeInteger for value < 0; >>= is the arithmetic shift.
RECURSIVE NegativeBytes(_, _)
NegativeBytes(temp, buf) ==
  IF temp < -1 \/ (temp = -1 /\ Len(buf) = 0)
    THEN NegativeBytes((temp - (temp % 256)) \div 256, <<temp % 256>> \o buf)
    ELSE buf

\* An encodeInteger that never prepends a sign byte.
encodeIntegerNoSignByte(value) ==
  IF value = 0 THEN <<0>>
  ELSE IF value > 0 THEN PositiveBytes(value)
  ELSE NegativeBytes(value, <<>>)

encodeInteger(value) ==
  IF value = 0 THEN <<0>>
  ELSE IF value > 0
    THEN LET buf == PositiveBytes(value) IN
         IF buf[1] >= 128 THEN <<0>> \o buf ELSE buf
    ELSE LET buf == NegativeBytes(value, <<>>) IN
         IF Len(buf) > 0 /\ buf[1] < 128 THEN <<255>> \o buf ELSE buf

\* value = (value << 8) | int64(b) over data, from value.
RECURSIVE ShiftIn(_, _, _)
ShiftIn(value, data, i) ==
  IF i > Len(data) THEN value ELSE ShiftIn(value * 256 + data[i], data, i + 1)

decodeInteger(data) ==
  IF Len(data) = 0 THEN 0
  ELSE ShiftIn(IF data[1] >= 128 THEN -1 ELSE 0, data, 1)

encodeUnsignedInteger(value) ==
  IF value = 0 THEN <<0>>
  ELSE LET buf == PositiveBytes(value) IN
       IF buf[1] >= 128 THEN <<0>> \o buf ELSE buf

decodeUnsignedInteger(data) == ShiftIn(0, data, 1)

\* The loop of encodeOIDComponent: seven bits a byte, the high ones first.
RECURSIVE Base128(_)
Base128(temp) ==
  IF temp > 0 THEN Append(Base128(temp \div 128), temp % 128) ELSE <<>>

encodeOIDComponent(value) ==
  IF value < 128 THEN <<value>>
  ELSE LET buf == Base128(value) IN
       [i \in 1..Len(buf) |-> IF i < Len(buf) THEN buf[i] + 128 ELSE buf[i]]

RECURSIVE encodeOIDComponents(_, _)
encodeOIDComponents(o, i) ==
  IF i > Len(o) THEN <<>>
  ELSE encodeOIDComponent(o[i]) \o encodeOIDComponents(o, i + 1)

\* byte(oid[0]*40 + oid[1]) keeps the low eight bits of the sum.
encodeOID(o) ==
  IF Len(o) < 2 THEN <<>>
  ELSE <<(o[1] * 40 + o[2]) % 256>> \o encodeOIDComponents(o, 3)

\* The loop of decodeOID from data[i], with current and oid so far.
RECURSIVE decodeOIDFrom(_, _, _, _)
decodeOIDFrom(data, i, current, o) ==
  IF i > Len(data) THEN o
  ELSE LET cur == current * 128 + (data[i] % 128) IN
       IF data[i] < 128
         THEN decodeOIDFrom(data, i + 1, 0, Append(o, cur))
         ELSE decodeOIDFrom(data, i + 1, cur, o)

decodeOID(data) ==
  IF Len(data) = 0 THEN [oid |-> <<>>, err |-> "ParseError"]
  ELSE [oid |-> decodeOIDFrom(data, 2, 0, <<data[1] \div 40, data[1] % 40>>),
        err |-> "nil"]

\* The codec applied to the value given: encode, then decode the bytes.
Ber_encodeInteger ==
  /\ ber.pc = "int"
  /\ ber' = [ber EXCEPT !.pc = "intEncoded", !.bytes = encodeInteger(ber.int)]
  /\ UNCHANGED <<coreVars, trapVars, poolVars>>

Ber_decodeInteger ==
  /\ ber.pc = "intEncoded"
  /\ ber' = [ber EXCEPT !.pc = "intDecoded", !.outInt = decodeInteger(ber.bytes)]
  /\ UNCHANGED <<coreVars, trapVars, poolVars>>

Ber_encodeOID ==
  /\ ber.pc = "oid"
  /\ ber' = [ber EXCEPT !.pc = "oidEncoded", !.bytes = encodeOID(ber.oid)]
  /\ UNCHANGED <<coreVars, trapVars, poolVars>>

Ber_decodeOID ==
  /\ ber.pc = "oidEncoded"
  /\ ber' = [ber EXCEPT !.pc = "oidDecoded",
                        !.outOid = decodeOID(ber.bytes).oid,
                        !.err = decodeOID(ber.bytes).err]
  /\ UNCHANGED <<coreVars, trapVars, poolVars>>

\* The most length bytes decodeLength accepts in the long form.
MaxLengthBytes == 4

\* length = (length << 8) | int(lb) over the first n bytes of lenBytes.
RECURSIVE ShiftLength(_, _)
ShiftLength(lenBytes, n) ==
  IF n = 0 THEN 0 ELSE ShiftLength(lenBytes, n - 1) * 256 + lenBytes[n]

\* io.ReadFull(r, buf) for a buffer of n bytes on a reader holding data.
ReadFull(data, n) ==
  IF Len(data) >= n THEN "nil"
  ELSE IF Len(data) = 0 THEN "EOF" ELSE "unexpected EOF"

\* decodeLength on a reader holding data: the length and the error.
decodeLength(data) ==
  IF ReadFull(data, 1) # "nil" THEN [length |-> 0, err |-> ReadFull(data, 1)]
  ELSE IF data[1] < 128 THEN [length |-> data[1], err |-> "nil"]
  ELSE LET numBytes == data[1] % 128
           rest == Tail(data)
       IN IF numBytes > MaxLengthBytes
            THEN [length |-> 0, err |-> "length too large"]
          ELSE IF ReadFull(rest, numBytes) # "nil"
            THEN [length |-> 0, err |-> ReadFull(rest, numBytes)]
          ELSE [length |-> ShiftLength(rest, numBytes), err |-> "nil"]

Ber_decodeLength ==
  /\ ber.pc = "len"
  /\ ber' = [ber EXCEPT !.pc = "lenDecoded",
                        !.outInt = decodeLength(ber.bytes).length,
                        !.err = decodeLength(ber.bytes).err]
  /\ UNCHANGED <<coreVars, trapVars, poolVars>>

(***************************************************************************)
(* Messages on the wire, as the trees of TLVs that encodeTLV builds and    *)
(* decodeTLV reads: a TLV has a tag and either content bytes or the TLVs   *)
(* its content consists of.  Lengths are not modelled.                     *)
(***************************************************************************)
TypeSequence == 48
TypeTrapV1 == 164
PDUGetResponse == 162
PDUInformRequest == 166
PDUTrapV2 == 167
OIDSysUpTime == <<1, 3, 6, 1, 2, 1, 1, 3, 0>>

encodeTLV(berType, value) == [tag |-> berType, bytes |-> value, kids |-> <<>>]
Constructed(berType, tlvs) == [tag |-> berType, bytes |-> <<>>, kids |-> tlvs]

\* A variable with its value: an integer, or 0 for nil.
Varbind(o, t, v) == [oid |-> o, type |-> t, value |-> v]

\* encodeVariable, for the types the traps of the model carry.
encodeVarbind(v) ==
  Constructed(TypeSequence,
    <<encodeTLV(TypeObjectIdentifier, encodeOID(v.oid)),
      IF v.type = TypeInteger THEN encodeTLV(TypeInteger, encodeInteger(v.value))
      ELSE IF v.type = TypeTimeTicks
        THEN encodeTLV(TypeTimeTicks, encodeUnsignedInteger(v.value))
      ELSE encodeTLV(v.type, <<>>)>>)

encodeVarbinds(variables) ==
  Constructed(TypeSequence,
              [i \in 1..Len(variables) |-> encodeVarbind(variables[i])])

\* TrapV1Message.Encode with TrapV1PDU.Encode.
EncodeTrapV1(m) ==
  Constructed(TypeSequence,
    <<encodeTLV(TypeInteger, encodeInteger(m.version)),
      encodeTLV(TypeOctetString, m.community),
      Constructed(TypeTrapV1,
        <<encodeTLV(TypeObjectIdentifier, encodeOID(m.enterprise)),
          encodeTLV(TypeIPAddress, m.agentAddress),
          encodeTLV(TypeInteger, encodeInteger(m.genericTrap)),
          encodeTLV(TypeInteger, encodeInteger(m.specificTrap)),
          encodeTLV(TypeTimeTicks, encodeUnsignedInteger(m.timestamp)),
          encodeVarbinds(m.variables)>>)>>)

\* Message.Encode with PDU.Encode, for a PDU that is not a GetBulk request.
EncodeMessage(m) ==
  Constructed(TypeSequence,
    <<encodeTLV(TypeInteger, encodeInteger(m.version)),
      encodeTLV(TypeOctetString, m.community),
      Constructed(m.type,
        <<encodeTLV(TypeInteger, encodeInteger(m.requestID)),
          encodeTLV(TypeInteger, encodeInteger(NoError)),
          encodeTLV(TypeInteger, encodeInteger(0)),
          encodeVarbinds(m.variables)>>)>>)

\* The value of a variable, by the switch of decodeVariables.
decodeValue(tlv) ==
  IF tlv.tag = TypeInteger THEN decodeInteger(tlv.bytes)
  ELSE IF tlv.tag \in {TypeCounter32, TypeGauge32, TypeTimeTicks, TypeUInteger32}
    THEN decodeUnsignedInteger(tlv.bytes)
  ELSE 0

\* One iteration of the loop of decodeVariables: a sequence of an OID and
\* a value.
decodeVarbind(tlv) ==
  IF tlv.tag # TypeSequence \/ Len(tlv.kids) < 1 THEN [err |-> "ParseError"]
  ELSE IF tlv.kids[1].tag # TypeObjectIdentifier THEN [err |-> "ParseError"]
  ELSE IF decodeOID(tlv.kids[1].bytes).err # "nil" \/ Len(tlv.kids) < 2
    THEN [err |-> "ParseError"]
  ELSE [err |-> "nil",
        v |-> Varbind(decodeOID(tlv.kids[1].bytes).oid, tlv.kids[2].tag,
                      decodeValue(tlv.kids[2]))]

\* decodeVariables on the TLVs that remain of a PDU: the first of them must
\* be a sequence, and each of its elements a variable.
decodeVariables(rest) ==
  IF Len(rest) = 0 \/ rest[1].tag # TypeSequence
    THEN [err |-> "ParseError", variables |-> <<>>]
  ELSE IF \E i \in 1..Len(rest[1].kids) : decodeVarbind(rest[1].kids[i]).err # "nil"
    THEN [err |-> "ParseError", variables |-> <<>>]
  ELSE [err |-> "nil",
        variables |-> [i \in 1..Len(rest[1].kids) |-> decodeVarbind(rest[1].kids[i]).v]]

\* decodePDU: three TLVs of any tag read as integers, then the variables.
decodePDU(tlv) ==
  IF Len(tlv.kids) < 3 THEN [err |-> "EOF"]
  ELSE LET vs == decodeVariables(SubSeq(tlv.kids, 4, Len(tlv.kids))) IN
       IF vs.err # "nil" THEN [err |-> vs.err]
       ELSE [err |-> "nil", type |-> tlv.tag,
             requestID |-> decodeInteger(tlv.kids[1].bytes),
             variables |-> vs.variables]

\* DecodeMessage: the outer sequence, version, community, PDU.
DecodeMessage(data) ==
  IF data.tag # TypeSequence THEN [err |-> "ParseError"]
  ELSE IF Len(data.kids) < 3 THEN [err |-> "EOF"]
  ELSE LET pdu == decodePDU(data.kids[3]) IN
       IF pdu.err # "nil" THEN [err |-> pdu.err]
       ELSE [err |-> "nil", version |-> decodeInteger(data.kids[1].bytes),
             community |-> data.kids[2].bytes, pdu |-> pdu]

\* DecodeTrapV1Message with DecodeTrapV1PDU.
DecodeTrapV1Message(data) ==
  IF data.tag # TypeSequence THEN [err |-> "ParseError"]
  ELSE IF Len(data.kids) < 3 THEN [err |-> "EOF"]
  ELSE LET t == data.kids[3] IN
       IF t.tag # TypeTrapV1 THEN [err |-> "ParseError"]
       ELSE IF Len(t.kids) < 5 THEN [err |-> "EOF"]
       ELSE IF decodeOID(t.kids[1].bytes).err # "nil" THEN [err |-> "ParseError"]
       ELSE LET vs == decodeVariables(SubSeq(t.kids, 6, Len(t.kids))) IN
            IF vs.err # "nil" THEN [err |-> vs.err]
            ELSE [err |-> "nil", version |-> decodeInteger(data.kids[1].bytes),
                  community |-> data.kids[2].bytes,
                  enterprise |-> decodeOID(t.kids[1].bytes).oid,
                  agentAddress |-> t.kids[2].bytes,
                  genericTrap |-> decodeInteger(t.kids[3].bytes),
                  specificTrap |-> decodeInteger(t.kids[4].bytes),
                  timestamp |-> decodeUnsignedInteger(t.kids[5].bytes),
                  variables |-> vs.variables]

\* A TrapPDU.  AgentAddress is the dotted form of four bytes, written as
\* the four numbers, or the empty string, written <<>>.
TrapPDU(ver, community, remoteAddr) ==
  [err |-> "nil", version |-> ver, community |-> community,
   enterprise |-> <<>>, agentAddress |-> <<>>, genericTrap |-> 0,
   specificTrap |-> 0, timestamp |-> 0, variables |-> <<>>,
   sourceAddress |-> remoteAddr]

NoTrap(err) == [TrapPDU(0, <<>>, 0) EXCEPT !.err = err]

decodeV1Trap(data, remoteAddr) ==
  LET msg == DecodeTrapV1Message(data) IN
    IF msg.err # "nil" THEN NoTrap(msg.err)
    ELSE [TrapPDU(msg.version, msg.community, remoteAddr) EXCEPT
            !.enterprise = msg.enterprise,
            !.agentAddress = IF Len(msg.agentAddress) = 4 THEN msg.agentAddress
                             ELSE <<>>,
            !.genericTrap = msg.genericTrap,
            !.specificTrap = msg.specificTrap,
            !.timestamp = msg.timestamp,
            !.variables = msg.variables]

\* The last uint32 value of a variable named OIDSysUpTime, else before.
RECURSIVE SysUpTime(_, _, _)
SysUpTime(variables, i, before) ==
  IF i > Len(variables) THEN before
  ELSE SysUpTime(variables, i + 1,
         IF /\ variables[i].oid = OIDSysUpTime
            /\ variables[i].type \in {TypeCounter32, TypeGauge32, TypeTimeTicks,
                                      TypeUInteger32}
           THEN variables[i].value ELSE before)

decodeTrap(data, remoteAddr) ==
  LET msg == DecodeMessage(data) IN
    IF msg.err # "nil" THEN decodeV1Trap(data, remoteAddr)
    ELSE IF msg.pdu.type \in {PDUTrapV2, PDUInformRequest}
      THEN [TrapPDU(msg.version, msg.community, remoteAddr) EXCEPT
              !.variables = msg.pdu.variables,
              !.timestamp = SysUpTime(msg.pdu.variables, 1, 0)]
    ELSE TrapPDU(msg.version, msg.community, remoteAddr)

\* The messages the senders of the model emit.  A message of kind "v1" is
\* a TrapV1Message, of kind "v2" a Message, of kind "none" no message.
Public == <<112, 117, 98>>
Private == <<112, 114, 105>>

TrapV1(community, specific, variables) ==
  [kind |-> "v1", version |-> Version1, community |-> community,
   type |-> TypeTrapV1, requestID |-> 0,
   enterprise |-> <<1, 3, 6, 1, 4, 1, 999>>, agentAddress |-> <<192, 0, 2, 1>>,
   genericTrap |-> 6, specificTrap |-> specific, timestamp |-> 12345,
   variables |-> variables]

MessageV2(community, type, variables) ==
  [kind |-> "v2", version |-> Version2c, community |-> community,
   type |-> type, requestID |-> 7,
   enterprise |-> <<>>, agentAddress |-> <<>>,
   genericTrap |-> 0, specificTrap |-> 0, timestamp |-> 0,
   variables |-> variables]

NoMessage == [MessageV2(<<>>, 0, <<>>) EXCEPT !.kind = "none"]

Senders ==
  {TrapV1(Public, 1, <<>>),
   TrapV1(Private, 200, <<Varbind(<<1, 3, 6>>, TypeInteger, 0 - 129)>>),
   MessageV2(Public, PDUTrapV2,
             <<Varbind(OIDSysUpTime, TypeTimeTicks, 500),
               Varbind(<<1, 3, 6, 1>>, TypeNull, 0)>>),
   MessageV2(Private, PDUGetResponse, <<>>),
   [TrapV1(Public, 1, <<>>) EXCEPT !.enterprise = <<2, 999, 1>>],
   NoMessage}

\* The content of an OBJECT IDENTIFIER as agents encode it: the first two
\* components make one subidentifier, written in base 128 like the others.
AgentOID(o) == encodeOIDComponent(o[1] * 40 + o[2]) \o encodeOIDComponents(o, 3)

\* The datagram of a message; the datagram of no message is not a sequence.
Wire(m) ==
  IF m.kind = "v1"
    THEN [EncodeTrapV1(m) EXCEPT !.kids[3].kids[1].bytes = AgentOID(m.enterprise)]
  ELSE IF m.kind = "v2" THEN EncodeMessage(m)
  ELSE encodeTLV(TypeInteger, <<1>>)

(***************************************************************************)
(* TrapListener: Start, the listen goroutine, the handler goroutines and   *)
(* Stop.  A community is the bytes of the string.                          *)
(***************************************************************************)
NoDatagram == [data |-> encodeTLV(0, <<>>), from |-> 0, sent |-> NoMessage]

\* NewTrapListener(handler, WithCommunity(community)).
NewTrapListener(community) ==
  [conn |-> "nil", done |-> FALSE, wg |-> 0, community |-> community,
   handler |-> TRUE, pc |-> "none", buf |-> NoDatagram, start |-> "idle",
   stop |-> "idle", panic |-> "",
   metrics |-> [TrapsReceived |-> 0, Errors |-> 0]]

NoListenerHist == [arrived |-> 0, reads |-> <<>>]

\* Start: ListenUDP fails, or the socket is kept and listen is started.
TrapListener_Start ==
  /\ listener.start = "idle"
  /\ \/ listener' = [listener EXCEPT !.start = "error"]
     \/ listener' = [listener EXCEPT !.conn = "open", !.wg = @ + 1,
                                     !.pc = "top", !.start = "nil"]
  /\ UNCHANGED <<coreVars, ber, poolVars, inbox, handlers, lhist>>

\* listen, top of the loop: select on l.done, else on to ReadFromUDP.
listen_top ==
  /\ listener.pc = "top"
  /\ listener' = IF listener.done
                   THEN [listener EXCEPT !.pc = "exit", !.wg = @ - 1]
                   ELSE [listener EXCEPT !.pc = "read"]
  /\ UNCHANGED <<coreVars, ber, poolVars, inbox, handlers, lhist>>

\* ReadFromUDP returns the next datagram of the socket; TrapsReceived + 1.
listen_read ==
  /\ listener.pc = "read" /\ listener.conn = "open"
  /\ inbox # <<>>
  /\ listener' = [listener EXCEPT !.pc = "decode", !.buf = Head(inbox),
                                  !.metrics.TrapsReceived = @ + 1]
  /\ inbox' = Tail(inbox)
  /\ UNCHANGED <<coreVars, ber, poolVars, handlers, lhist>>

\* ReadFromUDP returns an error, the socket being closed: select on l.done,
\* return or log and continue.
listen_readError ==
  /\ listener.pc = "read" /\ listener.conn = "closed"
  /\ listener' = IF listener.done
                   THEN [listener EXCEPT !.pc = "exit", !.wg = @ - 1]
                   ELSE [listener EXCEPT !.pc = "top"]
  /\ UNCHANGED <<coreVars, ber, poolVars, inbox, handlers, lhist>>

\* A filter that lets every community pass.
AcceptsAny(expected, community) == TRUE

\* The negation of l.opts.Community != "" && trap.Community != l.opts.Community.
Accepts(expected, community) == ~(expected # <<>> /\ community # expected)

\* A call l.handler(trap) on the goroutine of listen, which waits for it.
DispatchInline(trap, n) ==
  [handlers |-> Append(handlers, [trap |-> trap, state |-> "running", read |-> n]),
   pc |-> "handler"]

\* go l.handler(trap): a goroutine of its own; listen goes on.
Dispatch(trap, n) ==
  [handlers |-> Append(handlers, [trap |-> trap, state |-> "running", read |-> n]),
   pc |-> "top"]

\* listen after a read: decodeTrap, with Errors + 1 if it fails, the
\* community filter, go l.handler(trap), and back to the top of the loop in
\* each case.
listen_dispatch ==
  /\ listener.pc = "decode"
  /\ LET trap == decodeTrap(listener.buf.data, listener.buf.from)
         n == Len(lhist.reads) + 1
         d == Dispatch(trap, n)
     IN /\ lhist' = [lhist EXCEPT !.reads = Append(@, listener.buf.sent)]
        /\ IF /\ trap.err = "nil"
              /\ Accepts(listener.community, trap.community)
              /\ listener.handler
             THEN /\ handlers' = d.handlers
                  /\ listener' = [listener EXCEPT !.pc = d.pc, !.buf = NoDatagram]
             ELSE /\ handlers' = handlers
                  /\ listener' = [listener EXCEPT !.pc = "top", !.buf = NoDatagram,
                                    !.metrics.Errors =
                                      IF trap.err # "nil" THEN @ + 1 ELSE @]
  /\ UNCHANGED <<coreVars, ber, poolVars, inbox>>

\* The handler of invocation i returns; it need not.
handler_return(i) ==
  /\ i \in DOMAIN handlers /\ handlers[i].state = "running"
  /\ handlers' = [handlers EXCEPT ![i].state = "returned"]
  /\ UNCHANGED <<coreVars, ber, poolVars, listener, inbox, lhist>>

\* Stop on a started listener: close(l.done).
Stop_close ==
  /\ listener.stop = "idle" /\ listener.start = "nil"
  /\ listener' = IF listener.done
                   THEN [listener EXCEPT !.panic = "close of closed channel"]
                   ELSE [listener EXCEPT !.done = TRUE, !.stop = "conn"]
  /\ UNCHANGED <<coreVars, ber, poolVars, inbox, handlers, lhist>>

\* Stop: if l.conn != nil { l.conn.Close() }.
Stop_conn ==
  /\ listener.stop = "conn"
  /\ listener' = [listener EXCEPT
                    !.conn = IF @ # "nil" THEN "closed" ELSE @, !.stop = "wait"]
  /\ UNCHANGED <<coreVars, ber, poolVars, inbox, handlers, lhist>>

\* A Stop that returns without waiting for listen.
Stop_noWait ==
  /\ listener.stop = "wait"
  /\ listener' = [listener EXCEPT !.stop = "nil"]
  /\ UNCHANGED <<coreVars, ber, poolVars, inbox, handlers, lhist>>

\* Stop: l.wg.Wait(); return nil.
Stop_wait ==
  /\ listener.stop = "wait"
  /\ listener.wg = 0
  /\ listener' = [listener EXCEPT !.stop = "nil"]
  /\ UNCHANGED <<coreVars, ber, poolVars, inbox, handlers, lhist>>

\* A datagram arrives at the open socket.
Arrive(m) ==
  /\ listener.conn = "open"
  /\ lhist.arrived < MaxTraps
  /\ inbox' = Append(inbox, [data |-> Wire(m), from |-> 1, sent |-> m])
  /\ lhist' = [lhist EXCEPT !.arrived = @ + 1]
  /\ UNCHANGED <<coreVars, ber, poolVars, listener, handlers>>

(***************************************************************************)
(* Pool.  A client of the pool is known by its connection state and by     *)
(* whether its reconnect goroutine runs; Connect and Disconnect of such a  *)
(* client are single steps.  A slot is a *poolClient: client 0 stands for  *)
(* a nil slot and for a slot whose client is nil, which the pool treats    *)
(* alike; stale says that lastUsed is more than MaxIdleTime ago.           *)
(***************************************************************************)
PoolUsers == 1..NumUsers

NilSlot == [client |-> 0, stale |-> FALSE, inFlight |-> 0]

\* &poolClient{client: client, lastUsed: time.Now()}
NewPoolClient(c) == [client |-> c, stale |-> FALSE, inFlight |-> 0]

\* NewPool(WithClientOptions(WithAutoReconnect(auto))).
NewPool(auto) ==
  [clients |-> [i \in 1..PoolSize |-> NilSlot], done |-> FALSE, wg |-> 0,
   robin |-> 0, mu |-> [w |-> FALSE, r |-> 0], auto |-> auto,
   connect |-> "idle", losses |-> 0, panic |-> ""]

NoChecker == [pc |-> "none", i |-> 0, idle |-> FALSE, inFlight |-> 0, ticks |-> 0]
NoUser == [pc |-> "idle", start |-> 0, i |-> 0, idx |-> 0, client |-> 0, err |-> ""]

\* A client after a Connect that succeeded.
Connected == [state |-> "Connected", reconnecting |-> FALSE]

\* p.mu.Lock() and p.mu.RLock() can go on.
CanRLockAnyway(mu) == TRUE
CanLock(mu) == ~mu.w /\ mu.r = 0
CanRLock(mu) == ~mu.w

IsConnected(c) == pclients[c].state = "Connected"

\* The test of Pool.Get on a slot, without the call of IsConnected.
HealthyUnchecked(slot) == slot.client # 0

\* pc != nil && pc.client != nil && pc.client.IsConnected()
Healthy(slot) == slot.client # 0 /\ IsConnected(slot.client)

\* Client.Disconnect: from Connected to Disconnected, else ErrNotConnected.
DisconnectOf(cl, c) ==
  IF cl[c].state = "Connected" THEN [cl EXCEPT ![c].state = "Disconnected"] ELSE cl

\* How many of the first i slots got a client.
RECURSIVE Successes(_, _)
Successes(oks, i) ==
  IF i = 0 THEN 0 ELSE Successes(oks, i - 1) + (IF oks[i] THEN 1 ELSE 0)

\* Pool.Connect: under the lock, a new client for every slot; the slots of
\* the clients whose Connect fails stay nil; the health checker is started
\* unless every Connect failed.
Pool_Connect ==
  /\ pool.connect = "idle" /\ CanLock(pool.mu)
  /\ \E oks \in [1..PoolSize -> BOOLEAN] :
       LET n == Successes(oks, PoolSize) IN
         /\ pclients' = pclients \o [k \in 1..n |-> Connected]
         /\ pool' = [pool EXCEPT
              !.clients = [i \in 1..PoolSize |->
                             IF oks[i]
                               THEN NewPoolClient(Len(pclients) + Successes(oks, i))
                               ELSE pool.clients[i]],
              !.connect = IF n = 0 THEN "error" ELSE "nil",
              !.wg = IF n = 0 THEN @ ELSE @ + 1]
         /\ hc' = IF n = 0 THEN hc ELSE [hc EXCEPT !.pc = "select"]
  /\ UNCHANGED <<coreVars, ber, trapVars, users, closer>>

\* The reader of client c meets an I/O error: handleConnectionLost stores
\* Disconnected and, with AutoReconnect, starts the reconnect goroutine.
poolClient_lost(c) ==
  /\ c \in DOMAIN pclients /\ pclients[c].state = "Connected"
  /\ pool.losses < MaxLosses
  /\ pool' = [pool EXCEPT !.losses = @ + 1]
  /\ pclients' = [pclients EXCEPT ![c].state = "Disconnected",
                                  ![c].reconnecting = @ \/ pool.auto]
  /\ UNCHANGED <<coreVars, ber, trapVars, hc, users, closer>>

\* The reconnect goroutine of client c calls Connect, which enters by
\* CompareAndSwap(Disconnected, Connecting); in another state Connect
\* returns an error and the loop tries again later.
poolClient_reconnect_cas(c) ==
  /\ c \in DOMAIN pclients /\ pclients[c].reconnecting
  /\ pclients[c].state = "Disconnected"
  /\ pclients' = [pclients EXCEPT ![c].state = "Connecting"]
  /\ UNCHANGED <<coreVars, ber, trapVars, pool, hc, users, closer>>

\* That Connect dials: on success the client is Connected and reconnect
\* returns, on failure the client is Disconnected and the loop goes on.
poolClient_reconnect_dial(c) ==
  /\ c \in DOMAIN pclients /\ pclients[c].reconnecting
  /\ pclients[c].state = "Connecting"
  /\ \/ pclients' = [pclients EXCEPT ![c] = Connected]
     \/ pclients' = [pclients EXCEPT ![c].state = "Disconnected"]
  /\ UNCHANGED <<coreVars, ber, trapVars, pool, hc, users, closer>>

\* More than MaxIdleTime has passed since lastUsed of slot i.
Idle(i) ==
  /\ i \in DOMAIN pool.clients /\ pool.clients[i].client # 0
  /\ ~pool.clients[i].stale
  /\ pool' = [pool EXCEPT !.clients[i].stale = TRUE]
  /\ UNCHANGED <<coreVars, ber, trapVars, pclients, hc, users, closer>>

\* healthChecker, select: p.done is closed, return.
healthChecker_done ==
  /\ hc.pc = "select" /\ pool.done
  /\ hc' = [hc EXCEPT !.pc = "exit"]
  /\ pool' = [pool EXCEPT !.wg = @ - 1]
  /\ UNCHANGED <<coreVars, ber, trapVars, pclients, users, closer>>

\* healthChecker, select: the ticker fires; checkHealth takes the lock.
healthChecker_tick ==
  /\ hc.pc = "select" /\ hc.ticks < MaxChecks
  /\ CanLock(pool.mu)
  /\ pool' = [pool EXCEPT !.mu.w = TRUE]
  /\ hc' = [hc EXCEPT !.pc = "slot", !.i = 1, !.ticks = @ + 1]
  /\ UNCHANGED <<coreVars, ber, trapVars, pclients, users, closer>>

\* The slot after NewClient and Connect: a new poolClient if Connect
\* succeeded, else as it is.
Replaced(slot, ok, c) == IF ok THEN NewPoolClient(c) ELSE slot

\* checkHealth, one slot: a nil client is replaced by a new client if that
\* connects; a client that is not connected is connected again or, if its
\* Connect fails, set to nil and replaced likewise; for a connected client
\* lastUsed and inFlight are read.
checkHealth_slot ==
  /\ hc.pc = "slot" /\ hc.i <= Len(pool.clients)
  /\ LET slot == pool.clients[hc.i]
         c == slot.client
         new == Len(pclients) + 1
     IN \/ /\ c = 0
           /\ \E ok \in BOOLEAN :
                /\ pool' = [pool EXCEPT !.clients[hc.i] = Replaced(slot, ok, new)]
                /\ pclients' = IF ok THEN Append(pclients, Connected) ELSE pclients
           /\ hc' = [hc EXCEPT !.i = @ + 1]
        \/ /\ c # 0 /\ ~IsConnected(c)
           /\ \/ /\ pclients[c].state = "Disconnected"
                 /\ pclients' = [pclients EXCEPT ![c].state = "Connected"]
                 /\ pool' = pool
              \/ \E ok \in BOOLEAN :
                   /\ pool' = [pool EXCEPT !.clients[hc.i] =
                                 Replaced([slot EXCEPT !.client = 0], ok, new)]
                   /\ pclients' = IF ok THEN Append(pclients, Connected) ELSE pclients
           /\ hc' = [hc EXCEPT !.i = @ + 1]
        \/ /\ c # 0 /\ IsConnected(c)
           /\ hc' = [hc EXCEPT !.pc = "decide", !.idle = slot.stale,
                               !.inFlight = slot.inFlight]
           /\ UNCHANGED <<pool, pclients>>
  /\ UNCHANGED <<coreVars, ber, trapVars, users, closer>>

\* checkHealth, a connected slot: Disconnect if idle and not in use.
checkHealth_decide ==
  /\ hc.pc = "decide"
  /\ pclients' = IF hc.idle /\ hc.inFlight = 0
                   THEN DisconnectOf(pclients, pool.clients[hc.i].client)
                   ELSE pclients
  /\ hc' = [hc EXCEPT !.pc = "slot", !.i = @ + 1, !.idle = FALSE, !.inFlight = 0]
  /\ UNCHANGED <<coreVars, ber, trapVars, pool, users, closer>>

\* checkHealth returns: the deferred p.mu.Unlock().
checkHealth_return ==
  /\ hc.pc = "slot" /\ hc.i > Len(pool.clients)
  /\ pool' = [pool EXCEPT !.mu.w = FALSE]
  /\ hc' = [hc EXCEPT !.pc = "select", !.i = 0]
  /\ UNCHANGED <<coreVars, ber, trapVars, pclients, users, closer>>

\* A scan that always begins at the first slot.
FirstSlot(robin, n) == 0

\* start := atomic.AddUint64(&p.robin, 1) % uint64(len(p.clients))
RoundRobin(robin, n) == (robin + 1) % n

\* Pool.Get: RLock; an empty pool gives an error; else robin is advanced
\* and the scan begins at start.
Pool_Get(u) ==
  /\ users[u].pc = "idle" /\ CanRLock(pool.mu)
  /\ \A v \in PoolUsers : v < u => users[v].pc # "idle"
  /\ IF Len(pool.clients) = 0
       THEN /\ users' = [users EXCEPT ![u].pc = "done", ![u].err = "pool is empty"]
            /\ pool' = pool
       ELSE /\ users' = [users EXCEPT ![u].pc = "scan", ![u].i = 0,
                           ![u].start = RoundRobin(pool.robin, Len(pool.clients))]
            /\ pool' = [pool EXCEPT !.mu.r = @ + 1, !.robin = @ + 1]
  /\ UNCHANGED <<coreVars, ber, trapVars, pclients, hc, closer>>

\* Pool.Get, one iteration of the scan: a healthy slot is taken; after the
\* last slot the call returns an error through the deferred RUnlock.
Pool_Get_scan(u) ==
  /\ users[u].pc = "scan"
  /\ LET idx == ((users[u].start + users[u].i) % Len(pool.clients)) + 1 IN
       IF Healthy(pool.clients[idx])
         THEN /\ users' = [users EXCEPT ![u].pc = "take", ![u].idx = idx]
              /\ pool' = pool
         ELSE IF users[u].i + 1 < Len(pool.clients)
           THEN /\ users' = [users EXCEPT ![u].i = @ + 1]
                /\ pool' = pool
           ELSE /\ users' = [users EXCEPT ![u] =
                               [NoUser EXCEPT !.pc = "done",
                                  !.err = "no healthy connections available"]]
                /\ pool' = [pool EXCEPT !.mu.r = @ - 1]
  /\ UNCHANGED <<coreVars, ber, trapVars, pclients, hc, closer>>

\* Pool.Get, the slot taken: lastUsed = now, inFlight + 1, return the
\* client through the deferred RUnlock.
Pool_Get_take(u) ==
  /\ users[u].pc = "take"
  /\ pool' = [pool EXCEPT !.clients[users[u].idx].stale = FALSE,
                          !.clients[users[u].idx].inFlight = @ + 1,
                          !.mu.r = @ - 1]
  /\ users' = [users EXCEPT ![u] =
                 [NoUser EXCEPT !.pc = "holding",
                                !.client = pool.clients[users[u].idx].client]]
  /\ UNCHANGED <<coreVars, ber, trapVars, pclients, hc, closer>>

\* The slots that hold client c.
SlotsOf(c) == {i \in DOMAIN pool.clients : pool.clients[i].client = c}

\* Pool.Release: under RLock, inFlight - 1 for the first slot of the client.
Pool_Release(u) ==
  /\ users[u].pc = "holding" /\ CanRLock(pool.mu)
  /\ pool' = IF SlotsOf(users[u].client) # {}
               THEN LET i == CHOOSE j \in SlotsOf(users[u].client) :
                                \A k \in SlotsOf(users[u].client) : j <= k
                    IN [pool EXCEPT !.clients[i].inFlight = @ - 1]
               ELSE pool
  /\ users' = [users EXCEPT ![u].pc = "done"]
  /\ UNCHANGED <<coreVars, ber, trapVars, pclients, hc, closer>>

\* Pool.Close: close(p.done).
Pool_Close ==
  /\ closer = "idle" /\ pool.connect # "idle"
  /\ pool' = IF pool.done THEN [pool EXCEPT !.panic = "close of closed channel"]
             ELSE [pool EXCEPT !.done = TRUE]
  /\ closer' = "wait"
  /\ UNCHANGED <<coreVars, ber, trapVars, pclients, hc, users>>

\* Disconnect called on the client of every slot from i on.
RECURSIVE DisconnectSlots(_, _, _)
DisconnectSlots(cl, slots, i) ==
  IF i > Len(slots) THEN cl
  ELSE DisconnectSlots(IF slots[i].client # 0 THEN DisconnectOf(cl, slots[i].client)
                       ELSE cl,
                       slots, i + 1)

\* Pool.Close after p.wg.Wait(): under the lock, Disconnect on the client
\* of every slot, p.clients = nil, return.
Pool_Close_disconnect ==
  /\ closer = "wait" /\ pool.wg = 0
  /\ CanLock(pool.mu)
  /\ pclients' = DisconnectSlots(pclients, pool.clients, 1)
  /\ pool' = [pool EXCEPT !.clients = <<>>]
  /\ closer' = "nil"
  /\ UNCHANGED <<coreVars, ber, trapVars, hc, users>>

(***************************************************************************)
(* Initial state: NewClient.  requestID is rand.Int31().                   *)
(***************************************************************************)
InitClient(seeds, auto) ==
  /\ state = "Disconnected"
  /\ conn = 0
  /\ socks = <<>>
  /\ done = 1
  /\ doneClosed = <<FALSE>>
  /\ wg = 0
  /\ requestID \in seeds
  /\ pending = EmptyMap
  /\ autoReconnect \in auto
  /\ cpc = [c \in Callers |-> "idle"]
  /\ cid = [c \in Callers |-> 0]
  /\ cretry = [c \in Callers |-> 0]
  /\ clastErr = [c \in Callers |-> ""]
  /\ cresult = [c \in Callers |-> ""]
  /\ cgot = [c \in Callers |-> NoMsg]
  /\ cdata = [c \in Callers |-> <<>>]
  /\ chans = [c \in Callers |-> NewChan]
  /\ cancelled = [c \in Callers |-> FALSE]
  /\ emitted = [c \in Callers |-> <<>>]
  /\ chist = [c \in Callers |-> NoHist]
  /\ readers = <<>>
  /\ conpc = "idle"
  /\ dpc = "idle"
  /\ recon = <<>>
  /\ counts = [connects |-> 0, disconnects |-> 0, faults |-> 0, reconnects |-> 0,
               bursts |-> 0]
  /\ metrics = [Retries |-> 0]
  /\ lastAlloc = [id |-> 0, wrapped |-> FALSE]
  /\ crashed = ""
  /\ creq = [c \in Callers |-> NoReq]
  /\ cret = [c \in Callers |-> NoRet]
  /\ wpc = "idle"
  /\ wfn = ""
  /\ rootOID = <<>>
  /\ currentOID = <<>>
  /\ wvars = <<>>
  /\ wi = 0
  /\ results = <<>>
  /\ wret = NilError
  /\ wctx = FALSE
  /\ whist = NoWalkHist

\* The options of the client and the agent of the run.
ClientOptions(versions, reps, agents) ==
  /\ version \in versions
  /\ maxRepetitions \in reps
  /\ agent \in agents

\* The parts of the library a run of the client alone does not use.
UnusedCodec == ber = NoBer
UnusedListener ==
  /\ listener = NewTrapListener(<<>>)
  /\ inbox = <<>>
  /\ handlers = <<>>
  /\ lhist = NoListenerHist
UnusedPool ==
  /\ pool = NewPool(TRUE)
  /\ pclients = <<>>
  /\ hc = NoChecker
  /\ users = [u \in PoolUsers |-> NoUser]
  /\ closer = "idle"
Unused == UnusedCodec /\ UnusedListener /\ UnusedPool

InitOptions(versions, reps, agents) ==
  /\ ClientOptions(versions, reps, agents)
  /\ Unused

DefaultOptions ==
  InitOptions({Version2c}, {DefaultMaxRepetitions}, {AnyAgent({<<NoSuchName, 0>>})})

Init == InitClient({0}, {FALSE}) /\ DefaultOptions

(***************************************************************************)
(* Spec: the multiplexer.  The user connects once; NumCallers goroutines   *)
(* each issue one request; the agent answers the requests written, in any  *)
(* order and any number of times; up to MaxFaults faults are injected.     *)
(***************************************************************************)
CallerStep ==
  \E c \in Callers :
    \/ Get(c)
    \/ sendRequest_insert(c)
    \/ sendRequest_write(c)
    \/ sendRequest_response(c)
    \/ sendRequest_closed(c)
    \/ sendRequest_timeout(c)
    \/ sendRequest_cancelled(c)
    \/ Cancel(c)

ReaderStep ==
  \E r \in ReaderIds :
    \/ readLoop_top(r)
    \/ readLoop_datagram(r)
    \/ readLoop_deadline(r)
    \/ readLoop_error(r)
    \/ readLoop_dispatch(r)
    \/ handleConnectionLost_close(r)
    \/ handleConnectionLost_fail(r)

ConnectOnce ==
  \/ UserConnect_cas(1)
  \/ UserConnect_dial
  \/ UserConnect_start

Next ==
  \/ CallerStep
  \/ ReaderStep
  \/ ConnectOnce

Spec == Init /\ [][Next]_vars

(***************************************************************************)
(* SpecOps: one goroutine calls one operation, Get, GetNext, GetBulk or    *)
(* Set, with any of the argument lists, on a client of version 1 or 2c     *)
(* that the user connects once; the agent answers with any error status    *)
(* and error index.                                                        *)
(***************************************************************************)
OpCaller == CHOOSE c \in Callers : \A b \in Callers : c <= b

OpStep ==
  \/ Client_Get(OpCaller)
  \/ Client_GetNext(OpCaller)
  \/ Client_GetBulk(OpCaller)
  \/ Client_Set(OpCaller)
  \/ sendRequest_insert(OpCaller)
  \/ sendRequest_write(OpCaller)
  \/ sendRequest_response(OpCaller)
  \/ sendRequest_closed(OpCaller)
  \/ sendRequest_timeout(OpCaller)
  \/ sendRequest_cancelled(OpCaller)
  \/ Cancel(OpCaller)

AgentErrors == (ErrorStatuses \ {NoError}) \X ErrorIndexes

InitOps ==
  /\ InitClient({0}, {FALSE})
  /\ InitOptions({Version1, Version2c}, {DefaultMaxRepetitions},
                 {AnyAgent(AgentErrors)})

NextOps ==
  \/ OpStep
  \/ ReaderStep
  \/ ConnectOnce

SpecOps == InitOps /\ [][NextOps]_vars

(***************************************************************************)
(* SpecClose: the multiplexer with Disconnect called by the user while     *)
(* requests are in flight.                                                 *)
(***************************************************************************)
DisconnectStep ==
  \/ Disconnect_cas
  \/ Disconnect_store
  \/ Disconnect_close
  \/ Disconnect_wait
  \/ Disconnect_conn
  \/ Disconnect_fail

NextClose ==
  \/ CallerStep
  \/ ReaderStep
  \/ ConnectOnce
  \/ DisconnectStep

SpecClose == Init /\ [][NextClose]_vars

(***************************************************************************)
(* SpecWrap: requests over several connections of one client, with runs    *)
(* of rejected Get calls in between that advance the id counter.           *)
(***************************************************************************)
ConnectStep ==
  \/ UserConnect_cas(MaxConnects)
  \/ UserConnect_dial
  \/ UserConnect_start

BurstStep == \E n \in BurstSizes : GetNotConnected(n)

NextWrap ==
  \/ CallerStep
  \/ ReaderStep
  \/ ConnectStep
  \/ BurstStep

SpecWrap == Init /\ [][NextWrap]_vars

(***************************************************************************)
(* SpecConn: the connection life cycle without requests.  Connect and      *)
(* Disconnect are called from two user goroutines, the reader meets I/O    *)
(* errors, and the reconnect loop runs when AutoReconnect is set.          *)
(***************************************************************************)
ReconnectStep ==
  \E i \in ReaderIds :
    \/ reconnect_try(i)
    \/ reconnect_dial(i)
    \/ reconnect_start(i)

ConnReaderStep ==
  \E r \in ReaderIds :
    \/ readLoop_top(r)
    \/ readLoop_deadline(r)
    \/ readLoop_error(r)
    \/ handleConnectionLost_close(r)
    \/ handleConnectionLost_fail(r)

InitConn == InitClient({0}, BOOLEAN) /\ DefaultOptions

NextConn ==
  \/ ConnectStep
  \/ DisconnectStep
  \/ ConnReaderStep
  \/ ReconnectStep

SpecConn == InitConn /\ [][NextConn]_vars

(***************************************************************************)
(* SpecIds: the request id allocator, from every kind of seed.             *)
(***************************************************************************)
\* rand.Int31() gives a value of 0..MaxInt32: both ends, their neighbours
\* and the middle.
Seeds == {0, 1, 2, MaxInt32 \div 2, MaxInt32 \div 2 + 1, MaxInt32 - 3,
          MaxInt32 - 2, MaxInt32 - 1, MaxInt32}

InitIds == InitClient(Seeds, {FALSE}) /\ DefaultOptions

NextIds ==
  \/ \E c \in Callers : Get(c)
  \/ BurstStep

SpecIds == InitIds /\ [][NextIds]_vars

(***************************************************************************)
(* Properties.                                                             *)
(***************************************************************************)
InProgress(c) == cpc[c] \in {"insert", "write", "await"}
Outstanding(c) == cpc[c] \in {"write", "await"}
Answered(c) == cpc[c] = "done" /\ cresult[c] \in {"OK", "SNMPError"}

\* C1: a response is delivered only to the caller whose request carries
\* its request id: every PDU on a caller's channel and every PDU a caller
\* received carries that caller's id, and the answered calls are exactly
\* those that received a PDU.
C1_MatchedById ==
  \A c \in Callers :
    /\ \A i \in 1..Len(chans[c].buf) : chans[c].buf[i].rid = cid[c]
    /\ cgot[c] # NoMsg => cgot[c].rid = cid[c] /\ cpc[c] = "done"
    /\ Answered(c) <=> cgot[c] # NoMsg

\* All the callers' requests are outstanding at once, with pairwise distinct
\* ids, and each has its response on its channel.
C1_Witness ==
  /\ \A c \in Callers : cpc[c] = "await" /\ chans[c].buf # <<>>
  /\ \A c, d \in Callers : c # d => cid[c] # cid[d]

\* C2: with Retries = R, a call that gets no response, is not cancelled and
\* meets no fault emits R+1 datagrams, all the same bytes with its request
\* id, and returns Timeout; no call ever emits more than R+1 datagrams.
C2_RetriesThenTimeout ==
  \A c \in Callers :
    /\ Len(emitted[c]) <= Retries + 1
    /\ \A i \in 1..Len(emitted[c]) :
         emitted[c][i] = emitted[c][1] /\ emitted[c][i][4] = cid[c]
    /\ (cpc[c] = "done" /\ cresult[c] = "Timeout" /\ counts.faults = 0)
         => Len(emitted[c]) = Retries + 1
    /\ (cpc[c] = "done" /\ emitted[c] # <<>> /\ cgot[c] = NoMsg
          /\ counts.faults = 0)
         => cresult[c] = "Timeout"

C2_Witness ==
  \E c \in Callers :
    /\ cpc[c] = "done" /\ cresult[c] = "Timeout" /\ counts.faults = 0
    /\ Len(emitted[c]) = Retries + 1

\* C3: pending holds an entry only for a call in progress, under that
\* call's id: never more entries than calls in progress, and none when
\* every call has returned, whichever way it ended.
C3_PendingOnlyInProgress ==
  /\ \A k \in DOMAIN pending : Outstanding(pending[k]) /\ cid[pending[k]] = k
  /\ Cardinality(DOMAIN pending) <= Cardinality({c \in Callers : InProgress(c)})
  /\ (\A c \in Callers : cpc[c] = "done") => pending = EmptyMap

\* Every call has returned, one of them because the client was closed, and
\* pending is empty.
C3_Witness ==
  /\ \A c \in Callers : cpc[c] = "done" /\ cresult[c] # "NotConnected"
  /\ \E c \in Callers : cresult[c] = "ClientClosed"
  /\ pending = EmptyMap

\* C4: no two requests in progress share a request id, and a call about to
\* insert its entry finds no entry under its id.
C4_NeverReused ==
  /\ \A c, d \in Callers : (c # d /\ InProgress(c) /\ InProgress(d)) => cid[c] # cid[d]
  /\ \A c \in Callers : cpc[c] = "insert" => cid[c] \notin DOMAIN pending

\* C5: every allocated request id lies in 1..2^31-1, and the id allocated
\* by the call that wraps the counter is 1.
C5_IdsPositive ==
  /\ \A c \in Callers : cpc[c] # "idle" => cid[c] \in 1..MaxInt32
  /\ lastAlloc.wrapped => lastAlloc.id = 1 /\ requestID = 1

\* A caller was given the id 1 by the allocation that wrapped the counter.
C5_Witness ==
  /\ lastAlloc.wrapped
  /\ \E c \in Callers : cpc[c] # "idle" /\ cid[c] = 1

\* C6: a call whose context was cancelled while it awaited its response
\* returns the cancellation error and makes no further attempt.
C6_CancelEndsCall ==
  \A c \in Callers :
    cancelled[c] => \/ cpc[c] = "await"
                    \/ cpc[c] = "done" /\ cresult[c] = "Cancelled"

\* C7: when the reader dispatches a response whose request id has no entry
\* in pending, no channel, no pending entry and no caller changes, and the
\* reader is back at the top of its loop.
C7_UnknownIdDiscarded ==
  [][\A r \in ReaderIds :
       (/\ r \in DOMAIN readers
        /\ readers[r].pc = "lookup"
        /\ readers'[r].pc # "lookup"
        /\ readers[r].msg.rid \notin DOMAIN pending)
       => /\ readers'[r].pc = "top"
          /\ UNCHANGED <<pending, callerVars, crashed>>]_vars

\* The reader holds a response whose request has returned already.
C7_Witness ==
  \E r \in DOMAIN readers :
    /\ readers[r].pc = "lookup"
    /\ readers[r].msg.rid \notin DOMAIN pending
    /\ \E c \in Callers : cpc[c] = "done" /\ cid[c] = readers[r].msg.rid

\* C8: in a run without injected faults, a request that was outstanding
\* when Disconnect was called and got no response returns ClientClosed.
C8_OutstandingFailClosed ==
  \A c \in Callers :
    (chist[c].atDisconnect /\ cpc[c] = "done" /\ cgot[c] = NoMsg
       /\ counts.faults = 0)
      => cresult[c] = "ClientClosed"

\* C9: the connection state changes only along the edges of the state
\* machine, and a Connect that finds the state other than Disconnected, or
\* a Disconnect that finds it other than Connected, returns its error and
\* changes nothing of the client.
Edges == {<<"Disconnected", "Connecting">>, <<"Connecting", "Connected">>,
          <<"Connecting", "Disconnected">>, <<"Connected", "Disconnecting">>,
          <<"Disconnecting", "Disconnected">>, <<"Connected", "Disconnected">>}

C9_StateEdges ==
  [][/\ state' # state => <<state, state'>> \in Edges
     /\ (counts'.connects # counts.connects /\ state # "Disconnected")
          => /\ conpc' = "ErrAlreadyConnected"
             /\ UNCHANGED <<clientVars, pending, readers, recon, dpc>>
     /\ (counts'.reconnects # counts.reconnects /\ state # "Disconnected")
          => UNCHANGED <<clientVars, pending, readers, conpc, dpc>>
     /\ (counts'.disconnects # counts.disconnects /\ state # "Connected")
          => /\ dpc' = "ErrNotConnected"
             /\ UNCHANGED <<clientVars, pending, readers, recon, conpc>>]_vars

\* A Connect was refused while a Disconnect was under way.
C9_Witness ==
  /\ conpc = "ErrAlreadyConnected"
  /\ dpc \notin Returned

\* C10: no call goes on after a failed write: lastErr holds the write
\* error only in a call that has returned.
C10_WriteErrorFailsAtOnce ==
  \A c \in Callers : clastErr[c] # "WriteFailed"

(***************************************************************************)
(* SpecWalk: the user connects, then calls Walk or WalkFunc once, on a     *)
(* client of version 1 or 2c; the agent answers every request with any     *)
(* variables or with an error.  SpecMib: the same against compliant        *)
(* agents, for every max-repetitions from 1 to MaxBatch.                   *)
(***************************************************************************)
WalkStep ==
  \/ Walk
  \/ WalkFunc
  \/ Walk_cancelled
  \/ Walk_request
  \/ Walk_variable
  \/ Walk_advance
  \/ WalkCancel

WalkErrors == {<<NoSuchName, 1>>, <<GenErr, 0>>}

InitWalk ==
  /\ InitClient({0}, {FALSE})
  /\ InitOptions({Version1, Version2c}, {DefaultMaxRepetitions},
                 {AnyAgent(WalkErrors)})

NextWalk ==
  \/ WalkStep
  \/ ConnectOnce

SpecWalk == InitWalk /\ [][NextWalk]_vars

InitMib ==
  /\ InitClient({0}, {FALSE})
  /\ InitOptions({Version1, Version2c}, 1..MaxBatch,
                 {CompliantAgent(m) : m \in Mibs})

SpecMib == InitMib /\ [][NextWalk]_vars

(***************************************************************************)
(* Operations: SpecOps.                                                    *)
(***************************************************************************)
BulkRejected == "GetBulk not supported in SNMPv1"

\* C11: on a client of version 1 no GetBulk PDU is ever built, and the step
\* in which a call returns the GetBulk error is the whole call: the caller
\* is done, and the request id counter, the pending map, the sockets, the
\* encoded data and the datagrams written are what they were, in every
\* connection state and for every argument list.
C11_BulkRejectedOnV1 ==
  [][version = Version1 =>
       \A c \in Callers :
         /\ creq'[c].type # PDUGetBulkRequest
         /\ (cresult[c] # BulkRejected /\ cresult'[c] = BulkRejected) =>
              /\ cpc[c] = "idle" /\ cpc'[c] = "done"
              /\ UNCHANGED <<requestID, lastAlloc, pending, cid, creq, cdata,
                             emitted, chans, clientVars, taskVars>>]_vars

\* A GetBulk was rejected on a connected client of version 1.
C11_Witness ==
  /\ version = Version1 /\ state = "Connected"
  /\ \E c \in Callers : cpc[c] = "done" /\ cresult[c] = BulkRejected
  /\ requestID = 0 /\ pending = EmptyMap

EmptyInput(c) ==
  /\ creq[c].type \in {PDUGetRequest, PDUGetNextRequest}
  /\ creq[c].vars = <<>>

\* C12: a Get or GetNext called with an empty list of OIDs never has an
\* entry in pending and never writes a datagram.
C12_EmptyInputRejected ==
  \A c \in Callers :
    EmptyInput(c) => c \notin InPending /\ emitted[c] = <<>>

HasMarker(variables) ==
  \E i \in 1..Len(variables) : variables[i].type \in ExceptionMarkers

\* C13: no datagram written carries a variable of an exception marker,
\* and a Set with such a variable, at any position, never writes and
\* never waits: it returns an error (the encoder's, or ErrNotConnected)
\* and its request id is not in pending afterwards.
C13_MarkersNeverEncoded ==
  \A c \in Callers :
    /\ \A i \in 1..Len(emitted[c]) : ~HasMarker(emitted[c][i][6])
    /\ (creq[c].type = PDUSetRequest /\ HasMarker(creq[c].vars)) =>
         /\ emitted[c] = <<>>
         /\ cpc[c] \in {"insert", "done"}
         /\ cpc[c] = "done" =>
              /\ cresult[c] \in {"EncodeError", "NotConnected"}
              /\ cid[c] \notin DOMAIN pending

\* A Set whose second variable is an exception marker failed in the encoder.
C13_Witness ==
  \E c \in Callers :
    /\ cpc[c] = "done" /\ cresult[c] = "EncodeError"
    /\ creq[c].type = PDUSetRequest /\ Len(creq[c].vars) = 2
    /\ creq[c].vars[1].type = TypeInteger
    /\ creq[c].vars[2].type \in ExceptionMarkers

\* C14: a call that received a response with an error status returned no
\* variables and an SNMPError with the status and the index of the
\* response, whose OID is the one of the request's variable at that
\* 1-based index when the index is from 1 to the number of variables of
\* the request, and nil otherwise.
C14_SnmpErrorOfResponse ==
  \A c \in Callers :
    (cpc[c] = "done" /\ cgot[c] # NoMsg /\ cgot[c].es # NoError) =>
      /\ cresult[c] = "SNMPError"
      /\ cret[c].vars = "nil"
      /\ cret[c].err.kind = "SNMPError"
      /\ cret[c].err.status = cgot[c].es
      /\ cret[c].err.index = cgot[c].ei
      /\ \A i \in 1..Len(creq[c].vars) :
           cgot[c].ei = i => cret[c].err.oid = creq[c].vars[i].oid
      /\ cgot[c].ei \notin 1..Len(creq[c].vars) => cret[c].err.oid = <<>>

\* A request of two variables was answered with an error at index 2.
C14_Witness ==
  \E c \in Callers :
    /\ cpc[c] = "done" /\ cgot[c].es = GenErr /\ cgot[c].ei = 2
    /\ Len(creq[c].vars) = 2
    /\ cret[c].err.oid = ArgOID(2)

(***************************************************************************)
(* Walks: SpecWalk and SpecMib.                                            *)
(***************************************************************************)
\* o is root or lies below root.
Under(o, root) == Len(root) <= Len(o) /\ SubSeq(o, 1, Len(root)) = root

IsMarker(v) == v.type \in {TypeNoSuchObject, TypeNoSuchInstance, TypeEndOfMibView}

\* The walk itself took the step (not its context, not the user).
WalkMoved == <<wpc, wi, results>>' # <<wpc, wi, results>>

\* After Walk or WalkFunc returned, nothing of the walk changes and no
\* request id is allocated.
WalkIsOver == wpc = "done" => UNCHANGED <<wpc, wret, results, whist, requestID>>

\* C15: every variable in results (Walk), and every variable given to fn
\* (WalkFunc), has an OID under rootOID, whatever the agent answers and
\* for both versions.
C15_ReportedUnderRoot ==
  \A i \in 1..Len(results) : Under(results[i].oid, rootOID)

\* A walk reported two variables and met variables outside the root.
C15_Witness ==
  /\ wpc = "done" /\ Len(results) = 2 /\ whist.reqs = 2
  /\ whist.got = 2 /\ wret = NilError

C17_NoSuchNameEndsWalk ==
  (wpc = "done" /\ whist.err = "SNMPError" /\ whist.status = NoSuchName) =>
    wret = NilError

\* The instances under the root, with or without an instance at the root
\* itself.
Covered == {o \in agent.mib : Under(o, rootOID)}
CoveredBelow == {o \in agent.mib : Under(o, rootOID) /\ o # rootOID}

\* The walk ran to its end: it returned nil, or the noSuchName of the
\* agent at the end of the MIB, and fn returned no error.
RanToEnd ==
  /\ wpc = "done" /\ ~whist.fnErr
  /\ \/ wret = NilError
     \/ wret.kind = "SNMPError" /\ wret.status = NoSuchName

\* results holds exactly the instances S, each once, in lexicographic
\* order.
ReportsExactly(S) ==
  /\ Len(results) = Cardinality(S)
  /\ {results[i].oid : i \in 1..Len(results)} = S
  /\ \A i \in 1..Len(results) : ~IsMarker(results[i])
  /\ \A i \in 1..Len(results), j \in 1..Len(results) :
       i < j => OidLess(results[i].oid, results[j].oid)

\* C18, as stated: against a compliant agent a walk that ran to its end
\* reported exactly the instances whose OID has the root as a prefix, each
\* once, in lexicographic order.
C18_ReportsCovered == (agent.compliant /\ RanToEnd) => ReportsExactly(Covered)

\* C18, amended: against a compliant agent a walk that ran to its end
\* reported exactly the instances strictly below the root, each once, in
\* lexicographic order, for version 1 (GetNext) and version 2c (GetBulk)
\* and every max-repetitions from 1 to MaxBatch.
C18_ReportsCoveredBelow ==
  (agent.compliant /\ RanToEnd) => ReportsExactly(CoveredBelow)

\* A GetBulk walk with max-repetitions 2 over three instances, with an
\* instance after the subtree: the second response straddles its end.
C18_Witness ==
  /\ agent.compliant /\ RanToEnd /\ version = Version2c /\ maxRepetitions = 2
  /\ Len(results) = 3 /\ whist.reqs = 2 /\ whist.got = 2
  /\ <<1, 4>> \in agent.mib

\* C19: after two responses in a row that did not move the cursor forward
\* the walk has returned the error NonMonotonicWalk.
C19_NonProgressAborts ==
  whist.stalls >= 2 => (wpc = "done" /\ wret.kind = "NonMonotonicWalk")

\* C20: WalkFunc has called fn once for each variable reported, in their
\* order; once fn has returned an error the call is over and has returned
\* that error, and afterwards fn is not called and no request is issued.
C20_FnErrorHaltsWalk ==
  /\ [](wfn = "WalkFunc" =>
          /\ whist.calls = Len(results)
          /\ whist.fnErr => (wpc = "done" /\ wret = Sentinel("fn error")))
  /\ [][WalkIsOver]_vars

\* fn returned an error for the second variable of a response.
C20_Witness ==
  /\ wfn = "WalkFunc" /\ whist.fnErr /\ wpc = "done"
  /\ whist.calls = 2 /\ whist.reqs = 1

(***************************************************************************)
(* SpecBer: the integer codec and the OID codec, each applied to one       *)
(* value: the integers around zero and around the powers of two where the  *)
(* length of the encoding changes, and the OIDs of every kind of head with *)
(* up to MaxTail further components around the powers of 128.              *)
(***************************************************************************)
Powers == {128, 256, 32768, 65536, 8388608, 16777216}

Integers32 ==
  ((0 - IntSpan)..IntSpan)
    \cup {p + d : p \in Powers, d \in (0 - 1)..1}
    \cup {d - p : p \in Powers, d \in (0 - 1)..1}
    \cup {MinInt32, MinInt32 + 1, MaxInt32 - 1, MaxInt32}

Heads == {<<0, 0>>, <<0, 39>>, <<1, 0>>, <<1, 3>>, <<1, 39>>, <<2, 0>>,
          <<2, 39>>, <<2, 40>>, <<2, 175>>, <<2, 176>>, <<2, 999>>}
Components == {0, 1, 127, 128, 16383, 16384, MaxInt32}
Tails == UNION {[1..n -> Components] : n \in 0..MaxTail}
OIDs == {h \o t : h \in Heads, t \in Tails}

\* Readers given to decodeLength: a first byte and up to MaxLengthBytes + 1
\* bytes after it, with values that fit 31 bits.
FirstBytes == {0, 1, 127, 128, 129, 130, 131, 132, 133, 255}
LengthBytes == {0, 1, 127, 255}
LengthTails ==
  {t \in UNION {[1..n -> LengthBytes] : n \in 0..(MaxLengthBytes + 1)} :
     Len(t) >= MaxLengthBytes => t[1] < 128}
Lengths == {<<>>} \cup {<<f>> \o t : f \in FirstBytes, t \in LengthTails}

InitBer ==
  /\ InitClient({0}, {FALSE})
  /\ ClientOptions({Version2c}, {DefaultMaxRepetitions},
                   {AnyAgent({<<NoSuchName, 0>>})})
  /\ ber \in {[NoBer EXCEPT !.pc = "int", !.int = i] : i \in Integers32}
            \cup {[NoBer EXCEPT !.pc = "oid", !.oid = o] : o \in OIDs}
            \cup {[NoBer EXCEPT !.pc = "len", !.bytes = b] : b \in Lengths}
  /\ UnusedListener /\ UnusedPool

NextBer ==
  \/ Ber_encodeInteger
  \/ Ber_decodeInteger
  \/ Ber_encodeOID
  \/ Ber_decodeOID
  \/ Ber_decodeLength

SpecBer == InitBer /\ [][NextBer]_vars

\* The integer a sequence of bytes denotes in two's complement, big-endian:
\* the first byte is signed, the others are unsigned.
RECURSIVE TwosComplement(_, _)
TwosComplement(b, n) ==
  IF n = 0 THEN 0
  ELSE TwosComplement(b, n - 1) * 256
         + (IF n = 1 /\ b[1] >= 128 THEN b[1] - 256 ELSE b[n])

\* No first byte that the second byte makes redundant.
Minimal(b) ==
  Len(b) > 1 => /\ ~(b[1] = 0 /\ b[2] < 128)
                /\ ~(b[1] = 255 /\ b[2] >= 128)

\* C29: for every signed 32-bit integer i the encoding is a non-empty
\* sequence of bytes that denotes i in two's complement, big-endian, without
\* a redundant leading 0x00 or 0xFF, and decoding it gives i.
C29_IntegerRoundTrip ==
  /\ ber.pc \in {"intEncoded", "intDecoded"} =>
       /\ Len(ber.bytes) > 0
       /\ \A k \in 1..Len(ber.bytes) : ber.bytes[k] \in 0..255
       /\ TwosComplement(ber.bytes, Len(ber.bytes)) = ber.int
       /\ Minimal(ber.bytes)
  /\ ber.pc = "intDecoded" => ber.outInt = ber.int

\* 128 needs the sign byte 0x00, and comes back as 128.
C29_Witness ==
  /\ ber.pc = "intDecoded" /\ ber.int = 128
  /\ ber.bytes = <<0, 128>> /\ ber.outInt = 128

\* The OIDs the data model allows.
AllowedOID(o) ==
  /\ Len(o) >= 2
  /\ o[1] \in {0, 1, 2}
  /\ o[1] < 2 => o[2] <= 39
  /\ \A k \in 1..Len(o) : o[k] >= 0

\* C30: for every allowed OID o, decoding the encoding of o gives o.
C30_OIDRoundTrip ==
  (ber.pc = "oidDecoded" /\ AllowedOID(ber.oid)) =>
    (ber.err = "nil" /\ ber.outOid = ber.oid)

(***************************************************************************)
(* SpecTrap: a trap listener with or without an expected community is      *)
(* started, up to MaxTraps datagrams arrive (SNMPv1 traps, an SNMPv2c      *)
(* trap, a response, a datagram that is no message), handlers return or    *)
(* block, and Stop is called at any moment after Start.  SpecTrapFair is   *)
(* the same with the goroutine of listen and a Stop that has begun running *)
(* whenever they can, as the Go scheduler lets every runnable goroutine    *)
(* run; no handler is obliged to return.                                   *)
(***************************************************************************)
InitTrap ==
  /\ InitClient({0}, {FALSE})
  /\ ClientOptions({Version2c}, {DefaultMaxRepetitions},
                   {AnyAgent({<<NoSuchName, 0>>})})
  /\ UnusedCodec /\ UnusedPool
  /\ listener \in {NewTrapListener(<<>>), NewTrapListener(Public)}
  /\ inbox = <<>>
  /\ handlers = <<>>
  /\ lhist = NoListenerHist

ListenStep ==
  \/ listen_top
  \/ listen_read
  \/ listen_readError
  \/ listen_dispatch

StopRuns ==
  \/ Stop_conn
  \/ Stop_wait

NextTrap ==
  \/ TrapListener_Start
  \/ \E m \in Senders : Arrive(m)
  \/ ListenStep
  \/ \E i \in 1..MaxTraps : handler_return(i)
  \/ Stop_close
  \/ StopRuns

SpecTrap == InitTrap /\ [][NextTrap]_vars

SpecTrapFair == SpecTrap /\ WF_vars(ListenStep) /\ WF_vars(StopRuns)

\* The messages of the datagrams that have arrived, in the order of their
\* arrival: those dispatched, the one read and not yet dispatched, and
\* those waiting in the socket.
Arrived ==
  lhist.reads
    \o (IF listener.pc = "decode" THEN <<listener.buf.sent>> ELSE <<>>)
    \o [i \in 1..Len(inbox) |-> inbox[i].sent]

\* The message is an SNMP message whose community the listener expects.
Expected(m) ==
  /\ m.kind # "none"
  /\ listener.community = <<>> \/ m.community = listener.community

\* The handler invocations started for the k-th datagram.
InvocationsOf(k) == {i \in DOMAIN handlers : handlers[i].read = k}

\* C21: with an expected community configured, no handler is invoked for a
\* trap of another community; with none configured, every datagram read
\* that decodes as a message has its handler invocation, whatever its
\* community.
C21_CommunityFilter ==
  /\ listener.community # <<>> =>
       \A i \in DOMAIN handlers :
         /\ lhist.reads[handlers[i].read].community = listener.community
         /\ handlers[i].trap.community = listener.community
  /\ listener.community = <<>> =>
       \A k \in DOMAIN lhist.reads :
         lhist.reads[k].kind # "none" => InvocationsOf(k) # {}

\* A trap of community Private was read and dropped by a listener that
\* expects Public, which started the handler for a trap of Public.
C21_Witness ==
  /\ listener.community = Public
  /\ \E k \in DOMAIN lhist.reads :
       /\ lhist.reads[k].kind = "v1" /\ lhist.reads[k].community = Private
       /\ InvocationsOf(k) = {}
  /\ \E i \in DOMAIN handlers : handlers[i].trap.community = Public

\* C22: listen never runs a handler itself, and every datagram that has
\* arrived and carries an expected message gets its handler invocation
\* started, unless the listener is stopped, no matter how many handlers
\* started before are still running and never return.
C22_HandlersDetached ==
  /\ [](listener.pc # "handler")
  /\ \A k \in 1..MaxTraps :
       (Len(Arrived) >= k /\ Expected(Arrived[k]))
         ~> (InvocationsOf(k) # {} \/ listener.done)

\* The second handler was started while the first was still running.
C22_Witness ==
  /\ Len(handlers) = 2
  /\ handlers[1].state = "running" /\ handlers[2].state = "running"
  /\ listener.pc = "read" /\ ~listener.done

\* C23: a Stop that has begun returns; when it has returned the socket is
\* closed and listen has returned, and from then on no handler invocation
\* is started.
C23_StopEndsListener ==
  /\ [](listener.stop = "nil" => listener.pc = "exit" /\ listener.conn = "closed")
  /\ [][listener.stop = "nil" => Len(handlers') = Len(handlers)]_vars
  /\ (listener.stop # "idle") ~> (listener.stop = "nil")

\* Stop has returned while a handler runs on and a datagram stays unread.
C23_Witness ==
  /\ listener.stop = "nil" /\ listener.pc = "exit"
  /\ inbox # <<>>
  /\ \E i \in DOMAIN handlers : handlers[i].state = "running"

\* C24: for every SNMPv1 trap read whose community the listener expects,
\* DecodeMessage fails on the datagram and the handler is invoked exactly
\* once, with the version, community, enterprise, agent address, generic
\* and specific code, timestamp and variables of the message sent; the
\* record of any other message has no enterprise, agent address, generic
\* or specific code.
C24_V1TrapDelivered ==
  \A k \in DOMAIN lhist.reads :
    LET m == lhist.reads[k] IN
      /\ (m.kind = "v1" /\ Expected(m)) =>
           /\ DecodeMessage(Wire(m)).err # "nil"
           /\ Cardinality(InvocationsOf(k)) = 1
           /\ \A i \in InvocationsOf(k) :
                LET t == handlers[i].trap IN
                  /\ t.version = m.version
                  /\ t.community = m.community
                  /\ t.enterprise = m.enterprise
                  /\ t.agentAddress = m.agentAddress
                  /\ t.genericTrap = m.genericTrap
                  /\ t.specificTrap = m.specificTrap
                  /\ t.timestamp = m.timestamp
                  /\ t.variables = m.variables
      /\ m.kind # "v1" =>
           \A i \in InvocationsOf(k) :
             LET t == handlers[i].trap IN
               /\ t.enterprise = <<>> /\ t.agentAddress = <<>>
               /\ t.genericTrap = 0 /\ t.specificTrap = 0

(***************************************************************************)
(* SpecPool: a pool of PoolSize slots is connected, NumUsers goroutines    *)
(* each get and release a client, the health checker runs up to MaxChecks  *)
(* checks, slots become idle, up to MaxLosses connections are lost and     *)
(* reconnected by their clients, and Close is called at any moment after   *)
(* Connect.                                                                *)
(***************************************************************************)
InitPool ==
  /\ InitClient({0}, {FALSE})
  /\ ClientOptions({Version2c}, {DefaultMaxRepetitions},
                   {AnyAgent({<<NoSuchName, 0>>})})
  /\ UnusedCodec /\ UnusedListener
  /\ pool \in {NewPool(auto) : auto \in BOOLEAN}
  /\ pclients = <<>>
  /\ hc = NoChecker
  /\ users = [u \in PoolUsers |-> NoUser]
  /\ closer = "idle"

PoolClientStep ==
  \E c \in 1..(PoolSize * (MaxChecks + 1)) :
    \/ poolClient_lost(c)
    \/ poolClient_reconnect_cas(c)
    \/ poolClient_reconnect_dial(c)

HealthStep ==
  \/ healthChecker_done
  \/ healthChecker_tick
  \/ checkHealth_slot
  \/ checkHealth_decide
  \/ checkHealth_return

UserStep ==
  \E u \in PoolUsers :
    \/ Pool_Get(u)
    \/ Pool_Get_scan(u)
    \/ Pool_Get_take(u)
    \/ Pool_Release(u)

NextPool ==
  \/ Pool_Connect
  \/ PoolClientStep
  \/ \E i \in 1..PoolSize : Idle(i)
  \/ HealthStep
  \/ UserStep
  \/ Pool_Close
  \/ Pool_Close_disconnect

SpecPool == InitPool /\ [][NextPool]_vars

\* The in-flight counters of all slots.
InFlights(p) == [i \in DOMAIN p.clients |-> p.clients[i].inFlight]

\* User u leaves Pool.Get in this step with a client, with an error.
GetSucceeds(u) == users[u].pc = "take" /\ users'[u].pc = "holding"
GetFails(u) == users[u].pc \in {"idle", "scan"} /\ users'[u].pc = "done"

\* No slot of the pool holds a connected client.
NoneConnected ==
  \A i \in DOMAIN pool.clients :
    pool.clients[i].client = 0
      \/ pclients[pool.clients[i].client].state # "Connected"

HealthCheckerCloses ==
  /\ hc.pc = "decide" /\ hc'.pc = "slot"
  /\ pclients[pool.clients[hc.i].client].state = "Connected"
  /\ pclients'[pool.clients[hc.i].client].state = "Disconnected"

\* C26: when the health checker disconnects the client of a slot, that
\* slot's in-flight counter is zero and its last use is more than
\* MaxIdleTime ago, in the state in which the Disconnect happens.
C26_ClosesOnlyIdleUnused ==
  [][HealthCheckerCloses =>
       /\ pool.clients[hc.i].inFlight = 0
       /\ pool.clients[hc.i].stale]_vars

\* The health checker has closed an idle slot while a client of another slot
\* is in use.
C26_Witness ==
  /\ hc.pc = "slot" /\ hc.i > 1
  /\ pool.clients[hc.i - 1].client # 0
  /\ pool.clients[hc.i - 1].stale /\ pool.clients[hc.i - 1].inFlight = 0
  /\ pclients[pool.clients[hc.i - 1].client].state = "Disconnected"
  /\ pool.losses = 0
  /\ \E i \in DOMAIN pool.clients : pool.clients[i].inFlight > 0

\* C27: once Pool.Close has returned, the health checker has stopped, the
\* pool has no slots, so that Get returns an error, and every client the
\* pool created is Disconnected.
C27_CloseTearsDown ==
  closer = "nil" =>
    /\ hc.pc \in {"none", "exit"}
    /\ pool.clients = <<>>
    /\ \A c \in DOMAIN pclients : pclients[c].state = "Disconnected"

(***************************************************************************)
(* SpecLost: requests on a client that the user connects once, with and    *)
(* without AutoReconnect, while the reader meets I/O errors and the        *)
(* reconnect loop runs.                                                    *)
(***************************************************************************)
NextLost ==
  \/ CallerStep
  \/ ReaderStep
  \/ ConnectOnce
  \/ ReconnectStep

SpecLost == InitConn /\ [][NextLost]_vars

\* Reader r enters handleConnectionLost and its CompareAndSwap succeeds.
ConnectionLost(r) ==
  /\ r \in DOMAIN readers /\ r \in DOMAIN readers'
  /\ readers[r].pc = "read" /\ readers'[r].pc = "lost"

\* Reader r runs the end of handleConnectionLost.
ConnectionLostEnds(r) ==
  r \in DOMAIN readers /\ readers[r].pc = "lost2" /\ readers' # readers

\* sendRequest of caller c returns in this step, after failPending closed
\* its response channel.
FailedReturns(c) == chans[c].closed /\ cpc[c] # "done" /\ cpc'[c] = "done"

\* C28: when the reader's CompareAndSwap in handleConnectionLost succeeds
\* the client was Connected and is Disconnected; the end of
\* handleConnectionLost closes the response channel of every request in
\* pending, empties pending, and starts one reconnect task if and only if
\* AutoReconnect is set; and a caller whose response channel was closed this
\* way returns an error from sendRequest, or the response that was already
\* in its channel, and the process goes on.
C28_ConnectionLostFailsPending ==
  [][/\ \A r \in ReaderIds :
          /\ ConnectionLost(r) => state = "Connected" /\ state' = "Disconnected"
          /\ ConnectionLostEnds(r) =>
               /\ \A c \in InPending : chans'[c].closed
               /\ pending' = EmptyMap
               /\ Len(recon') = Len(recon) + (IF autoReconnect THEN 1 ELSE 0)
     /\ \A c \in Callers :
          FailedReturns(c) =>
            /\ crashed' = ""
            /\ \/ cresult'[c] \in {"ClientClosed", "WriteFailed", "Timeout",
                                   "Cancelled"}
               \/ chans[c].buf # <<>>]_vars

\* The number the first n bytes of b denote, big-endian and unsigned.
RECURSIVE BigEndian(_, _)
BigEndian(b, n) == IF n = 0 THEN 0 ELSE BigEndian(b, n - 1) * 256 + b[n]

\* The bytes given to decodeLength begin with a short form, with a long form
\* of 1 to MaxLengthBytes length bytes that are all there, with the
\* indefinite form, with a long form of more length bytes.
ShortForm(b) == b # <<>> /\ b[1] < 128
LongForm(b) ==
  /\ b # <<>> /\ b[1] \in 129..(128 + MaxLengthBytes)
  /\ Len(b) - 1 >= b[1] - 128
IndefiniteForm(b) == b # <<>> /\ b[1] = 128
TooLongForm(b) == b # <<>> /\ b[1] > 128 + MaxLengthBytes

\* C31: decodeLength returns the first byte for the short form and the
\* big-endian value of the length bytes for a long form of 1 to 4 length
\* bytes, both without error; it returns an error for the indefinite form
\* 0x80 and for a long form that announces more than 4 length bytes.
C31_LengthForms ==
  ber.pc = "lenDecoded" =>
    /\ ShortForm(ber.bytes) => ber.err = "nil" /\ ber.outInt = ber.bytes[1]
    /\ LongForm(ber.bytes) =>
         /\ ber.err = "nil"
         /\ ber.outInt = BigEndian(Tail(ber.bytes), ber.bytes[1] - 128)
    /\ IndefiniteForm(ber.bytes) => ber.err # "nil"
    /\ TooLongForm(ber.bytes) => ber.err # "nil"

\* Reader r holds a decoded response and is about to look up its request id.
Delivering(r) == r \in DOMAIN readers /\ readers[r].pc = "lookup" /\ crashed = ""

\* The response reader r holds is for a request whose channel is full.
SlotFull(r) ==
  /\ readers[r].msg.rid \in DOMAIN pending
  /\ chans[pending[readers[r].msg.rid]].buf # <<>>

\* C32: a response channel never holds more than one response; a reader
\* that holds a decoded response can always take its next step, whatever the
\* callers do, and that step brings it back to the top of its loop; if the
\* channel of the request is full the response is dropped: no channel
\* changes.
C32_ReaderNeverBlocks ==
  /\ [](\A c \in Callers : Len(chans[c].buf) <= 1)
  /\ [][\A r \in ReaderIds :
          Delivering(r) =>
            /\ ENABLED readLoop_dispatch(r)
            /\ readers'[r] # readers[r] =>
                 /\ readers'[r].pc = "top"
                 /\ SlotFull(r) => chans' = chans]_vars

\* A duplicate response has arrived for a request whose caller has not yet
\* taken the first one out of the channel.
C32_Witness ==
  \E r \in ReaderIds :
    /\ Delivering(r) /\ SlotFull(r)
    /\ cpc[pending[readers[r].msg.rid]] = "await"

\* Every slot got its client in Pool.Connect, and every client has been
\* Connected ever since: no connection was lost and no health check ran.
AllStayedHealthy ==
  /\ pool.connect = "nil" /\ closer = "idle"
  /\ Len(pclients) = PoolSize /\ pool.losses = 0 /\ hc.ticks = 0
  /\ \A c \in DOMAIN pclients : pclients[c].state = "Connected"

\* The slot at offset i of the scan of user u.
ScanSlot(u, i) == ((users[u].start + i) % Len(pool.clients)) + 1

\* The client of slot i is Connected.
SlotConnected(i) ==
  /\ pool.clients[i].client # 0
  /\ pclients[pool.clients[i].client].state = "Connected"

\* C33: every Get takes the next turn, one slot further than the Get before
\* it, cyclically; its scan skips a slot only if the client of that slot is
\* not Connected and takes the first slot it does not skip; so while all
\* slots stay healthy, as many Gets as there are slots return every client
\* of the pool exactly once.
C33_RoundRobin ==
  /\ [](AllStayedHealthy /\ (\A u \in PoolUsers : users[u].pc = "holding")
          /\ NumUsers = PoolSize
        => {users[u].client : u \in PoolUsers} = DOMAIN pclients)
  /\ [][\A u \in PoolUsers :
          /\ users[u].pc = "idle" /\ users'[u].pc = "scan" =>
               /\ pool'.robin = pool.robin + 1
               /\ users'[u].start = pool'.robin % Len(pool.clients)
               /\ users'[u].i = 0
          /\ users[u].pc = "scan" /\ users'[u].pc = "take" =>
               /\ users'[u].idx = ScanSlot(u, users[u].i)
               /\ SlotConnected(users'[u].idx)
          /\ users[u].pc = "scan" /\ users'[u] # users[u]
               /\ users'[u].pc # "take" =>
               ~SlotConnected(ScanSlot(u, users[u].i))]_vars

\* As many users as slots hold a client each, all slots having stayed
\* healthy.
C33_Witness ==
  /\ AllStayedHealthy
  /\ \A u \in PoolUsers : users[u].pc = "holding"
  /\ \A u, v \in PoolUsers : u # v => users[u].client # users[v].client

\* C34: every handler invocation is for a datagram that carries a v1 Trap,
\* an SNMPv2-Trap or an InformRequest; a datagram that decodes as a message
\* with another PDU tag starts no handler.
C34_OnlyTrapsInvokeHandler ==
  \A i \in DOMAIN handlers :
    /\ lhist.reads[handlers[i].read].kind # "none"
    /\ lhist.reads[handlers[i].read].type
         \in {TypeTrapV1, PDUTrapV2, PDUInformRequest}

\* The datagrams read for which no handler was started, and those among
\* them that did not decode.
Dropped == {k \in DOMAIN lhist.reads : InvocationsOf(k) = {}}
Undecoded == {k \in DOMAIN lhist.reads : lhist.reads[k].kind = "none"}

\* C35: a listener with a handler counts every datagram it drops: the
\* datagrams that decode in neither format are counted by Errors, and the
\* counters of the listener other than TrapsReceived, which are Errors
\* alone, add up to the number of datagrams dropped.
C35_DropsCounted ==
  listener.handler =>
    /\ listener.metrics.TrapsReceived
         = Len(lhist.reads) + (IF listener.pc = "decode" THEN 1 ELSE 0)
    /\ listener.metrics.Errors = Cardinality(Undecoded)
    /\ listener.metrics.Errors = Cardinality(Dropped)

\* The reader goroutines that have not returned.
RunningReaders == {r \in DOMAIN readers : readers[r].pc # "exit"}

\* A Connect has stored Connected and has not yet started its reader.
ConnectCompletes ==
  conpc = "start" \/ \E i \in DOMAIN recon : recon[i].pc = "start"

\* C36: while the state is Connected and no Connect is between its store of
\* Connected and the start of its reader, c.conn is an open socket and
\* exactly one reader goroutine runs.
C36_ConnectedHasSocketAndReader ==
  (state = "Connected" /\ crashed = "" /\ ~ConnectCompletes) =>
    /\ conn # 0 /\ socks[conn].open
    /\ Cardinality(RunningReaders) = 1

\* C37: a request never sets a deadline on, or writes to, a c.conn that
\* Disconnect or handleConnectionLost has set to nil: no call of sendRequest
\* ends in the panic of a nil connection.
C37_NoRequestOnClearedSocket ==
  /\ crashed # "nil conn in sendRequest"
  /\ \A c \in Callers : cresult[c] # "Panic"

\* C38: no interleaving of Connect, Disconnect, handleConnectionLost and the
\* reconnect loop closes a done channel that is closed already.
C38_DoneClosedOnce == crashed # "close of closed channel"

(***************************************************************************)
(* SpecConnFair: SpecConn where a Disconnect that has begun goes on and    *)
(* every reader goes on: the scheduler runs each goroutine, and a Read     *)
(* that gets nothing returns when its deadline expires.  Nothing obliges   *)
(* the user to call Connect, the network to fail, or a dial to succeed.    *)
(***************************************************************************)
DisconnectRuns ==
  \/ Disconnect_store
  \/ Disconnect_close
  \/ Disconnect_wait
  \/ Disconnect_conn
  \/ Disconnect_fail

ReaderRuns(r) ==
  \/ readLoop_top(r)
  \/ readLoop_deadline(r)
  \/ handleConnectionLost_close(r)
  \/ handleConnectionLost_fail(r)

SpecConnFair ==
  /\ SpecConn
  /\ WF_vars(DisconnectRuns)
  /\ \A r \in ReaderIds : WF_vars(ReaderRuns(r))

\* C39: a Disconnect whose CompareAndSwap found the client Connected
\* returns, unless the process has panicked before.
C39_DisconnectReturns ==
  (dpc = "store") ~> (dpc = "nil" \/ crashed # "")

\* Reconnect task i has made an attempt in this step while the client was
\* Connected: its Connect returned ErrAlreadyConnected.
FindsConnected(i) ==
  /\ i \in DOMAIN recon /\ recon[i].pc = "try" /\ state = "Connected"
  /\ recon'[i] # recon[i]

\* C40: a reconnect task that finds the client Connected, by whomever,
\* returns; it makes no further attempt.
C40_ReconnectStopsWhenConnected ==
  [][\A i \in ReaderIds : FindsConnected(i) => recon'[i].pc = "exit"]_vars

====
